---- MODULE Spec2Model ----
(***************************************************************************)
(* Xun-POS: the checkout (pos_gui.py), the product editor                  *)
(* (products_gui.py) and the reports viewer (reports_gui.py) are           *)
(* independent OS processes that share three CSV files and coordinate only *)
(* through flock() advisory locks.                                         *)
(*                                                                         *)
(* A file is a record [exists, lines]; a line is the tuple of the CSV      *)
(* fields of one row, every field a string as it is on disk (line 1 is the *)
(* header row).  Each process has a program counter pc[p]; a handler that  *)
(* touches a shared file is split at its system calls (open, flock, write, *)
(* close), a handler that touches only the process's memory is one step.   *)
(***************************************************************************)
EXTENDS Integers, Sequences, FiniteSets, TLC

\* ---------------------------------------------------------------- bounds
\* Rows a Python text stream holds back before it writes them to the file
\* (io.DEFAULT_BUFFER_SIZE bytes in the runtime; counted in rows here).
BufferRows == 1
\* Sales one checkout session finalizes.
MaxSales == 1
\* Largest quantity of one cart line.
MaxQty == 2
\* Injected I/O failures (open() raising OSError) per run.
MaxFaults == 1
\* Cash-flow entries are recorded while the clock is below MaxTicks.
MaxTicks == 2
\* Rows the product editor holds at most.
MaxRows == 2
\* Clock readings per calendar day: t0 and t1 fall on day 0, t2 and t3 on day 1.
TicksPerDay == 2

\* ------------------------------------------------------------- processes
Pos == {"pos1", "pos2"}
Editor == "editor"
Reports == "reports"
Procs == Pos \cup {Editor, Reports}
\* the terminals that run login.py
Logins == {"tty1", "tty2"}

SalesFile == "sales.csv"
CashFile == "cash_flow.csv"
ProductsFile == "products.csv"
Files == {SalesFile, CashFile, ProductsFile}

VARIABLES
  files,        \* [Files -> [exists : BOOLEAN, lines : Seq(line)]]
  lockEx,       \* [Files -> SUBSET Procs]  holders of LOCK_EX
  lockSh,       \* [Files -> SUBSET Procs]  holders of LOCK_SH
  pc,           \* [Procs -> STRING]  position of each process
  buf,          \* [Procs -> Seq(line)] rows written to an open stream, not yet in the file
  timestamp,    \* [Pos -> STRING]  the timestamp of the running log_sale / log_cash_flow
  cash_args,    \* [Pos -> line]  (transaction_type, amount, concept) of the running log_cash_flow
  inv_lines,    \* [Pos -> Seq(line)]  "lines" of the running update_inventory
  products,     \* [Pos -> function barcode -> product]  POS_GUI.products
  sale_items,   \* [Pos -> Seq(cart line)]  POS_GUI.sale_items, in insertion order
  last_added,   \* [Pos -> STRING]  POS_GUI.last_added_barcode ("" for None)
  total,        \* [Pos -> float]  PaymentWindow.total
  amount_paid,  \* [Pos -> float]  PaymentWindow.amount_paid
  dialog,       \* [Procs -> STRING]  last messagebox shown by the running handler
  tree,         \* Seq(line)  rows of the editor's Treeview
  seen,         \* [Files -> Seq(line)]  rows the reports viewer shows, per ledger
  report_loaded,\* BOOLEAN  ReportsApp.__init__ has returned
  start_date,   \* date  first day of the report (start_cal / selected_report_date)
  end_date,     \* date  last day of the report (end_cal / selected_report_date)
  totals,       \* daily_total, entries_total, exits_total of the running report
  labels,       \* the four total labels of the reports window
  clock,        \* Nat  datetime.now(), strictly increasing
  nsales,       \* [Pos -> Nat]  sales finalized by the session
  faults,       \* Nat  I/O failures injected so far
  users,        \* username -> [password, role]  the records of .credentials
  current_user, \* [Logins -> STRING]  LoginSystem.current_user ("" for None)
  current_role, \* [Logins -> STRING]  LoginSystem.current_role ("" for None)
  child,        \* [Logins -> STRING]  the checkout run_python_app waits for ("" for none)
  user_role,    \* [Pos -> STRING]  POS_GUI.user_role
  launched,     \* [Pos -> SUBSET STRING]  scripts the session started with Popen
  hist          \* history (not program state), see HistInit

fileVars == <<files, lockEx, lockSh>>
callVars == <<buf, timestamp, cash_args, inv_lines>>
uiVars == <<products, sale_items, last_added, total, amount_paid>>
reportVars == <<start_date, end_date, totals, labels>>
viewVars == <<tree, seen, report_loaded, reportVars>>
envVars == <<clock, nsales, faults>>
loginVars == <<users, current_user, current_role, child>>
accessVars == <<loginVars, user_role, launched>>
vars ==
  <<fileVars, pc, callVars, uiVars, dialog, viewVars, envVars, accessVars, hist>>

\* ------------------------------------------------------------ CSV fields
SalesHeaderPos ==
  <<"timestamp", "barcode", "name", "quantity", "unit_price", "total_price">>
SalesHeaderReports ==
  <<"timestamp", "barcode", "nombre", "cantidad", "precio_unitario", "precio_total">>
CashHeader == <<"timestamp", "type", "amount", "concept">>
ProductsHeader == <<"barcode", "name", "price", "inventario">>

\* Every integer the model can compute lies in Ints (stocks, quantities,
\* prices and their products), so int() and float() fail only on texts that
\* are not numbers.
IntLimit == 4 * (MaxSales + 2) * (MaxQty + 2)
Ints == (0 - IntLimit)..IntLimit
\* str(n) and int(s): int() reads the decimal text of n, also with a leading
\* zero ("07" is 7), and raises ValueError on a text that is no integer.
IntTexts(n) == {ToString(n)} \cup (IF n >= 0 THEN {"0" \o ToString(n)} ELSE {})
IsIntText(s) == \E n \in Ints : s \in IntTexts(n)
ParseInt(s) == CHOOSE n \in Ints : s \in IntTexts(n)
\* str.isdigit(): a text of decimal digits only (no sign).
IsDigit(s) == \E n \in 0..IntLimit : ToString(n) = s

\* A float is [nan, v]; str(x) of a float writes "2.0" for 2, float(s) reads
\* "2", "2.0" and "nan", and raises ValueError on any other text.
NaN == [nan |-> TRUE, v |-> 0]
Float(n) == [nan |-> FALSE, v |-> n]
FloatStr(x) == IF x.nan THEN "nan" ELSE ToString(x.v) \o ".0"
IsFloatText(s) ==
  s = "nan" \/ \E n \in Ints : s = ToString(n) \/ s = ToString(n) \o ".0"
ParseFloat(s) ==
  IF s = "nan" THEN NaN
  ELSE Float(CHOOSE n \in Ints : s = ToString(n) \/ s = ToString(n) \o ".0")
\* Comparisons and arithmetic on floats: every comparison with nan is False,
\* every sum or product with nan is nan.
FloatLess(a, b) == ~a.nan /\ ~b.nan /\ a.v < b.v
FloatGeq(a, b) == ~a.nan /\ ~b.nan /\ a.v >= b.v
FloatAdd(a, b) == IF a.nan \/ b.nan THEN NaN ELSE Float(a.v + b.v)
FloatSub(a, b) == IF a.nan \/ b.nan THEN NaN ELSE Float(a.v - b.v)
IntTimes(q, x) == IF x.nan THEN NaN ELSE Float(q * x.v)

\* datetime.now().isoformat()
isoformat(n) == "t" \o ToString(n)

Absent == [exists |-> FALSE, lines |-> <<>>]
File(lines) == [exists |-> TRUE, lines |-> lines]

Range(s) == {s[i] : i \in 1..Len(s)}

IsPrefix(s, t) == Len(s) <= Len(t) /\ \A i \in 1..Len(s) : s[i] = t[i]

\* ------------------------------------------------------------- flock(2)
\* LOCK_EX is granted when no other process holds any lock on the file,
\* LOCK_SH when no other process holds LOCK_EX; the call blocks until then.
CanLockEx(p, f) == lockEx[f] \subseteq {p} /\ lockSh[f] \subseteq {p}
CanLockSh(p, f) == lockEx[f] \subseteq {p}

\* ------------------------------------------------- buffered text stream
\* csv.writer.writerow() hands each row to the stream; the stream keeps rows
\* in its buffer and writes the buffered rows to the file only when the buffer
\* is full, on flush() and on close().  The result is the rows that reached
\* the file (out) and the rows still buffered (pending).
RECURSIVE BufferedWrite(_, _, _)
BufferedWrite(out, pending, rows) ==
  IF rows = <<>> THEN [out |-> out, pending |-> pending]
  ELSE IF Len(pending) >= BufferRows
       THEN BufferedWrite(out \o pending, <<Head(rows)>>, Tail(rows))
       ELSE BufferedWrite(out, Append(pending, Head(rows)), Tail(rows))

\* ---------------------------------------------------------------- history
\* hist records what happened, for the properties; no action reads it.
\*   calls     : log_sale calls begun, [ts, p, rows] (rows: what the call writes)
\*   logged    : timestamps of the log_sale calls that returned
\*   applied   : timestamps of the sales whose stock decrement was written
\*   rewriting : products.csv is between the truncate and the last write of a rewrite
\*   midread   : processes that read products.csv while it was being rewritten
\*   accepted  : [ts, total, paid] of each payment a finalize was started from
\*   failed    : timestamps of the log_sale calls that raised
\*   saved     : applied, as it was when the editor's last save took its lock
HistInit ==
  [calls |-> {}, logged |-> {}, applied |-> {}, rewriting |-> FALSE,
   midread |-> {}, accepted |-> {}, failed |-> {}, saved |-> {}]

\* ------------------------------------------------ checkout: start-up
\* POS_GUI.load_products: a row is kept when its price (and stock, when it
\* has one) parse; a later row replaces an earlier one with the same barcode.
RowLoads(row) ==
  \/ Len(row) >= 4 /\ IsFloatText(row[3]) /\ IsIntText(row[4])
  \/ Len(row) = 3 /\ IsFloatText(row[3])
ProductOf(row) ==
  [name |-> row[2], price |-> ParseFloat(row[3]),
   inventory |-> IF Len(row) >= 4 THEN ParseInt(row[4]) ELSE 0]
\* (LoadProducts_until_bad: a load that stops at the first row it cannot use.)
LoadProducts_until_bad(lines) ==
  LET rows == Tail(lines)
      ok == {i \in 1..Len(rows) : \A j \in 1..i : RowLoads(rows[j])}
      last(b) == CHOOSE i \in ok :
                   rows[i][1] = b /\ \A j \in ok : rows[j][1] = b => j <= i
  IN [b \in {rows[i][1] : i \in ok} |-> ProductOf(rows[last(b)])]
LoadProducts(lines) ==
  LET rows == Tail(lines)
      ok == {i \in 1..Len(rows) : RowLoads(rows[i])}
      last(b) == CHOOSE i \in ok :
                   rows[i][1] = b /\ \A j \in ok : rows[j][1] = b => j <= i
  IN [b \in {rows[i][1] : i \in ok} |-> ProductOf(rows[last(b)])]

\* POS_GUI.__init__ up to load_products: the table is read without a lock.  A
\* missing or empty file shows an error and destroys the window.
load_products(p) ==
  /\ pc[p] = "boot"
  /\ LET f == files[ProductsFile] IN
       IF ~f.exists \/ f.lines = <<>>
       THEN /\ pc' = [pc EXCEPT ![p] = "closed"]
            /\ dialog' = [dialog EXCEPT ![p] =
                 IF f.exists THEN "Data Error" ELSE "File not found"]
            /\ UNCHANGED products
       ELSE /\ pc' = [pc EXCEPT ![p] = "init_sales"]
            /\ products' = [products EXCEPT ![p] = LoadProducts(f.lines)]
            /\ UNCHANGED dialog
  /\ hist' = [hist EXCEPT !.midread =
                IF hist.rewriting THEN @ \cup {p} ELSE @]
  /\ UNCHANGED <<accessVars, fileVars, callVars, sale_items, last_added, total,
                 amount_paid, viewVars, envVars>>

\* POS_GUI.init_sales_log / init_cash_flow_log: os.path.exists(), and then, as
\* a separate system call, open(..., "w") and the header row.
init_log_exists(p, at, f, create, next) ==
  /\ pc[p] = at
  /\ pc' = [pc EXCEPT ![p] = IF files[f].exists THEN next ELSE create]
  /\ UNCHANGED <<accessVars, fileVars, callVars, uiVars, dialog, viewVars, envVars, hist>>

init_log_create(p, at, f, header, next) ==
  /\ pc[p] = at
  /\ files' = [files EXCEPT ![f] = File(<<header>>)]
  /\ pc' = [pc EXCEPT ![p] = next]
  /\ UNCHANGED <<accessVars, lockEx, lockSh, callVars, uiVars, dialog, viewVars, envVars,
                 hist>>

init_sales_log(p) ==
  \/ init_log_exists(p, "init_sales", SalesFile, "init_sales_w", "init_cash")
  \/ init_log_create(p, "init_sales_w", SalesFile, SalesHeaderPos, "init_cash")

init_cash_flow_log(p) ==
  \/ init_log_exists(p, "init_cash", CashFile, "init_cash_w", "main")
  \/ init_log_create(p, "init_cash_w", CashFile, CashHeader, "main")

\* ------------------------------------------------ checkout: the cart (OPEN)
CartCodes(cart) == {cart[i].barcode : i \in 1..Len(cart)}
CartIndex(cart, b) == CHOOSE i \in 1..Len(cart) : cart[i].barcode = b
CartQty(cart, b) == IF b \in CartCodes(cart) THEN cart[CartIndex(cart, b)].qty ELSE 0

\* POS_GUI.add_product on the entry text "base" or "base*n".  The quantity is
\* int(n) when n.isdigit(), else 1; the product is found by barcode, else by
\* name.  found = FALSE: "Product not found", nothing changes.
AddQty(star, n) == IF star /\ IsDigit(n) THEN ParseInt(n) ELSE 1
FindBarcode(prods, base) ==
  IF base \in DOMAIN prods THEN base
  ELSE IF \E c \in DOMAIN prods : prods[c].name = base
       THEN CHOOSE c \in DOMAIN prods : prods[c].name = base
       ELSE ""
\* (AddToCart_replace: an add that sets the quantity of a line it finds.)
AddToCart_replace(cart, prods, b, qty) ==
  IF b \in CartCodes(cart)
  THEN [cart EXCEPT ![CartIndex(cart, b)].qty = qty]
  ELSE Append(cart, [barcode |-> b, name |-> prods[b].name,
                     price |-> prods[b].price, qty |-> qty])
AddToCart(cart, prods, b, qty) ==
  IF b \in CartCodes(cart)
  THEN [cart EXCEPT ![CartIndex(cart, b)].qty = @ + qty]
  ELSE Append(cart, [barcode |-> b, name |-> prods[b].name,
                     price |-> prods[b].price, qty |-> qty])

add_product(p, base, star, n) ==
  /\ pc[p] = "main"
  /\ nsales[p] < MaxSales
  /\ LET b == FindBarcode(products[p], base)
         qty == AddQty(star, n)
     IN /\ CartQty(sale_items[p], b) + qty <= MaxQty
        /\ IF b # ""
           THEN /\ sale_items' = [sale_items EXCEPT ![p] =
                                    AddToCart(@, products[p], b, qty)]
                /\ last_added' = [last_added EXCEPT ![p] = b]
           ELSE UNCHANGED <<sale_items, last_added>>
  /\ UNCHANGED <<accessVars, fileVars, pc, callVars, products, total, amount_paid,
                 dialog, viewVars, envVars, hist>>

\* POS_GUI.add_one_more_last_product ('+' key)
add_one_more_last_product(p) ==
  /\ pc[p] = "main"
  /\ CartQty(sale_items[p], last_added[p]) + 1 <= MaxQty
  /\ IF last_added[p] # "" /\ last_added[p] \in CartCodes(sale_items[p])
     THEN sale_items' = [sale_items EXCEPT ![p] =
            [@ EXCEPT ![CartIndex(@, last_added[p])].qty = @ + 1]]
     ELSE UNCHANGED sale_items
  /\ UNCHANGED <<accessVars, fileVars, pc, callVars, products, last_added, total,
                 amount_paid, dialog, viewVars, envVars, hist>>

\* (delete_item_while_paying: a delete_item that also works while the payment
\* window is open.)
delete_item_while_paying(p, b) ==
  /\ pc[p] \in {"main", "payment", "paid"}
  /\ b \in {l.barcode : l \in {sale_items[p][i] : i \in 1..Len(sale_items[p])}}
  /\ sale_items' = [sale_items EXCEPT ![p] =
                      SelectSeq(@, LAMBDA l : l.barcode # b)]
  /\ UNCHANGED <<accessVars, fileVars, pc, callVars, products, last_added, total,
                 amount_paid, dialog, viewVars, envVars, hist>>

\* POS_GUI.delete_item on the selected line of the sale list
RemoveLine(cart, b) ==
  LET keep == SelectSeq(cart, LAMBDA l : l.barcode # b) IN keep
delete_item(p, b) ==
  /\ pc[p] = "main"
  /\ b \in CartCodes(sale_items[p])
  /\ sale_items' = [sale_items EXCEPT ![p] = RemoveLine(@, b)]
  /\ UNCHANGED <<accessVars, fileVars, pc, callVars, products, last_added, total,
                 amount_paid, dialog, viewVars, envVars, hist>>

\* POS_GUI.update_total: sum of qty * price over the cart
RECURSIVE CartTotal(_)
CartTotal(cart) ==
  IF cart = <<>> THEN Float(0)
  ELSE FloatAdd(IntTimes(Head(cart).qty, Head(cart).price), CartTotal(Tail(cart)))

\* (show_payment_window_any_total: a show_payment_window that opens the
\* payment window whatever the total.)
show_payment_window_any_total(p) ==
  /\ pc[p] = "main"
  /\ pc' = [pc EXCEPT ![p] = "payment"]
  /\ total' = [total EXCEPT ![p] = CartTotal(sale_items[p])]
  /\ amount_paid' = [amount_paid EXCEPT ![p] = Float(0)]
  /\ UNCHANGED <<accessVars, fileVars, callVars, products, sale_items, last_added,
                 dialog, viewVars, envVars, hist>>

\* POS_GUI.show_payment_window (F1): opens the modal PaymentWindow for the
\* total when the total is > 0 (OPEN -> PRICED).
show_payment_window(p) ==
  /\ pc[p] = "main"
  /\ LET t == CartTotal(sale_items[p]) IN
       IF FloatLess(Float(0), t)
       THEN /\ pc' = [pc EXCEPT ![p] = "payment"]
            /\ total' = [total EXCEPT ![p] = t]
            /\ amount_paid' = [amount_paid EXCEPT ![p] = Float(0)]
            /\ UNCHANGED dialog
       ELSE /\ dialog' = [dialog EXCEPT ![p] = "Empty Sale"]
            /\ UNCHANGED <<pc, total, amount_paid>>
  /\ UNCHANGED <<accessVars, fileVars, callVars, products, sale_items, last_added,
                 viewVars, envVars, hist>>

\* (calculate_change_no_comparison: a calculate_change without the
\* "amount_paid < total" test.)
calculate_change_no_comparison(p, text) ==
  /\ pc[p] = "payment"
  /\ IF ~IsFloatText(text)
     THEN /\ dialog' = [dialog EXCEPT ![p] = "Invalid amount"]
          /\ UNCHANGED <<pc, amount_paid>>
     ELSE /\ amount_paid' = [amount_paid EXCEPT ![p] = ParseFloat(text)]
          /\ pc' = [pc EXCEPT ![p] = "paid"]
          /\ UNCHANGED dialog
  /\ UNCHANGED <<accessVars, fileVars, callVars, products, sale_items, last_added, total,
                 viewVars, envVars, hist>>

\* PaymentWindow.calculate_change on the entry text (PRICED -> PAID): float()
\* of the text, then "if amount_paid < total: error".  Accepted: the action
\* buttons (finalize) appear.
calculate_change(p, text) ==
  /\ pc[p] = "payment"
  /\ IF ~IsFloatText(text)
     THEN /\ dialog' = [dialog EXCEPT ![p] = "Invalid amount"]
          /\ UNCHANGED <<pc, amount_paid>>
     ELSE /\ amount_paid' = [amount_paid EXCEPT ![p] = ParseFloat(text)]
          /\ IF FloatLess(ParseFloat(text), total[p])
             THEN /\ dialog' = [dialog EXCEPT ![p] = "Amount received is less than total"]
                  /\ UNCHANGED pc
             ELSE /\ pc' = [pc EXCEPT ![p] = "paid"]
                  /\ UNCHANGED dialog
  /\ UNCHANGED <<accessVars, fileVars, callVars, products, sale_items, last_added, total,
                 viewVars, envVars, hist>>

\* PaymentWindow: Esc / Cancel / window close (on_closing) destroy the payment
\* window; the main window and its cart stay as they are.
payment_destroy(p) ==
  /\ pc[p] \in {"payment", "paid"}
  /\ pc' = [pc EXCEPT ![p] = "main"]
  /\ UNCHANGED <<accessVars, fileVars, callVars, uiVars, dialog, viewVars, envVars, hist>>

\* F12 / Exit: self.destroy() of the main window (POS_GUI.on_closing is
\* registered with no protocol and bound to no event: it never runs).
exit_app(p) ==
  /\ pc[p] = "main"
  /\ pc' = [pc EXCEPT ![p] = "closed"]
  /\ UNCHANGED <<accessVars, fileVars, callVars, uiVars, dialog, viewVars, envVars, hist>>

\* ------------------------------------------------ checkout: log_sale
\* (LogRows_unit_total: a log_sale that writes the unit price as the total.)
LogRows_unit_total(ts, cart) ==
  [i \in 1..Len(cart) |->
     <<ts, cart[i].barcode, cart[i].name, ToString(cart[i].qty),
       FloatStr(cart[i].price), FloatStr(cart[i].price)>>]

\* (LogRows_first_line: a log_sale that writes the first cart line only.)
LogRows_first_line(ts, cart) ==
  [i \in 1..(IF Len(cart) > 1 THEN 1 ELSE Len(cart)) |->
     <<ts, cart[i].barcode, cart[i].name, ToString(cart[i].qty),
       FloatStr(cart[i].price), FloatStr(IntTimes(cart[i].qty, cart[i].price))>>]

\* The rows log_sale writes for a cart: one per cart line, in cart order.
LogRows(ts, cart) ==
  [i \in 1..Len(cart) |->
     <<ts, cart[i].barcode, cart[i].name, ToString(cart[i].qty),
       FloatStr(cart[i].price), FloatStr(IntTimes(cart[i].qty, cart[i].price))>>]

\* PaymentWindow.finalize_sale (Enter / Close, or F2 print_and_finalize) enters
\* POS_GUI.log_sale: the timestamp is taken and sales.csv is opened for append
\* (which creates it when it is absent).
\* (log_sale_open_inventory_first: a finalize_sale that calls update_inventory
\* before log_sale.)
log_sale_open_inventory_first(p) ==
  /\ pc[p] = "paid"
  /\ nsales[p] < MaxSales
  /\ clock' = clock + 1
  /\ timestamp' = [timestamp EXCEPT ![p] = isoformat(clock)]
  /\ pc' = [pc EXCEPT ![p] = "inv_exists"]
  /\ dialog' = [dialog EXCEPT ![p] = ""]
  /\ hist' = [hist EXCEPT
       !.calls = @ \cup {[ts |-> isoformat(clock), p |-> p,
                          rows |-> LogRows(isoformat(clock), sale_items[p])]},
       !.accepted = @ \cup {[ts |-> isoformat(clock), total |-> total[p],
                             paid |-> amount_paid[p]]}]
  /\ UNCHANGED <<accessVars, fileVars, buf, cash_args, inv_lines, uiVars, viewVars,
                 nsales, faults>>

log_sale_open(p) ==
  /\ pc[p] = "paid"
  /\ nsales[p] < MaxSales
  /\ clock' = clock + 1
  /\ timestamp' = [timestamp EXCEPT ![p] = isoformat(clock)]
  /\ files' = [files EXCEPT ![SalesFile] = IF @.exists THEN @ ELSE File(<<>>)]
  /\ pc' = [pc EXCEPT ![p] = "log_lock"]
  /\ dialog' = [dialog EXCEPT ![p] = ""]
  /\ hist' = [hist EXCEPT
       !.calls = @ \cup {[ts |-> isoformat(clock), p |-> p,
                          rows |-> LogRows(isoformat(clock), sale_items[p])]},
       !.accepted = @ \cup {[ts |-> isoformat(clock), total |-> total[p],
                             paid |-> amount_paid[p]]}]
  /\ UNCHANGED <<accessVars, lockEx, lockSh, buf, cash_args, inv_lines, uiVars, viewVars,
                 nsales, faults>>

\* open() raises OSError: the exception leaves log_sale and finalize_sale, the
\* payment window stays as it was.
log_sale_open_fails(p) ==
  /\ pc[p] = "paid"
  /\ nsales[p] < MaxSales
  /\ faults < MaxFaults
  /\ faults' = faults + 1
  /\ clock' = clock + 1
  /\ timestamp' = [timestamp EXCEPT ![p] = isoformat(clock)]
  /\ hist' = [hist EXCEPT !.failed = @ \cup {isoformat(clock)}]
  /\ UNCHANGED <<accessVars, fileVars, pc, buf, cash_args, inv_lines, uiVars, dialog,
                 viewVars, nsales>>

\* fcntl.flock(f, LOCK_EX) of an append stream
append_lock(p, at, f, next) ==
  /\ pc[p] = at
  /\ CanLockEx(p, f)
  /\ lockEx' = [lockEx EXCEPT ![f] = @ \cup {p}]
  /\ pc' = [pc EXCEPT ![p] = next]
  /\ UNCHANGED <<accessVars, files, lockSh, callVars, uiVars, dialog, viewVars, envVars,
                 hist>>

\* the writerow() calls of an append: the rows go through the stream's buffer;
\* what the buffer passes on is appended to the file (O_APPEND).
append_write(p, at, f, rows, next) ==
  /\ pc[p] = at
  /\ LET w == BufferedWrite(<<>>, buf[p], rows) IN
       /\ files' = [files EXCEPT ![f].lines = @ \o w.out]
       /\ buf' = [buf EXCEPT ![p] = w.pending]
  /\ pc' = [pc EXCEPT ![p] = next]
  /\ UNCHANGED <<accessVars, lockEx, lockSh, timestamp, cash_args, inv_lines, uiVars,
                 dialog, viewVars, envVars, hist>>

\* (append_unlock_late: an append whose lock is let go only when the process
\* exits, so that it is still held when the next file is locked.)
append_unlock_late(p, at, f, next) ==
  /\ pc[p] = at
  /\ pc' = [pc EXCEPT ![p] = next]
  /\ UNCHANGED <<accessVars, fileVars, callVars, uiVars, dialog, viewVars, envVars, hist>>

\* finally: fcntl.flock(f, LOCK_UN)
append_unlock(p, at, f, next) ==
  /\ pc[p] = at
  /\ lockEx' = [lockEx EXCEPT ![f] = @ \ {p}]
  /\ pc' = [pc EXCEPT ![p] = next]
  /\ UNCHANGED <<accessVars, files, lockSh, callVars, uiVars, dialog, viewVars, envVars,
                 hist>>

\* the end of the with block: close() writes what the buffer still holds
append_close(p, at, f, next) ==
  /\ pc[p] = at
  /\ files' = [files EXCEPT ![f].lines = @ \o buf[p]]
  /\ buf' = [buf EXCEPT ![p] = <<>>]
  /\ pc' = [pc EXCEPT ![p] = next]
  /\ hist' = [hist EXCEPT !.logged =
                IF f = SalesFile THEN @ \cup {timestamp[p]} ELSE @]
  /\ UNCHANGED <<accessVars, lockEx, lockSh, timestamp, cash_args, inv_lines, uiVars,
                 dialog, viewVars, envVars>>

log_sale(p) ==
  \/ append_lock(p, "log_lock", SalesFile, "log_write")
  \/ append_write(p, "log_write", SalesFile,
                  LogRows(timestamp[p], sale_items[p]), "log_unlock")
  \/ append_unlock(p, "log_unlock", SalesFile, "log_close")
  \/ append_close(p, "log_close", SalesFile, "inv_exists")

\* ------------------------------------------------ checkout: update_inventory
LastRow(rows, b) ==
  rows[CHOOSE i \in 1..Len(rows) :
         rows[i][1] = b /\ \A j \in 1..Len(rows) : rows[j][1] = b => j <= i]
\* int(row[3]) succeeds: the row has a stock field and it is an integer
Updatable(row, cart) ==
  row[1] \in CartCodes(cart) /\ Len(row) >= 4 /\ IsIntText(row[4])
\* (NewRow_clamped: a decrement that stops at zero.)
NewRow_clamped(row, cart) ==
  IF Updatable(row, cart)
  THEN LET n == ParseInt(row[4]) - CartQty(cart, row[1]) IN
         [row EXCEPT ![4] = ToString(IF n < 0 THEN 0 ELSE n)]
  ELSE row
NewRow(row, cart) ==
  IF Updatable(row, cart)
  THEN [row EXCEPT ![4] = ToString(ParseInt(row[4]) - CartQty(cart, row[1]))]
  ELSE row
\* products_dict keeps, per barcode, the last row with it; the stock of that
\* row is decremented; every row is then replaced by its barcode's row.
\* (ChangesMade_always: a write-back that does not depend on changes_made.)
ChangesMade_always(lines, cart) == Len(lines) >= 1
ChangesMade(lines, cart) ==
  \E i \in 2..Len(lines) : Updatable(LastRow(Tail(lines), lines[i][1]), cart)
UpdatedLines(lines, cart) ==
  [i \in 1..Len(lines) |->
     IF i = 1 THEN lines[1]
     ELSE NewRow(LastRow(Tail(lines), lines[i][1]), cart)]

\* "if not filepath.exists(): showerror; return"
\* (inv_exists_silent: the same check that returns without a message.)
inv_exists_silent(p) ==
  /\ pc[p] = "inv_exists"
  /\ pc' = [pc EXCEPT ![p] =
       IF files[ProductsFile].exists THEN "inv_lock" ELSE "reset_sale"]
  /\ UNCHANGED <<accessVars, fileVars, callVars, uiVars, dialog, viewVars, envVars, hist>>

inv_exists(p) ==
  /\ pc[p] = "inv_exists"
  /\ IF files[ProductsFile].exists
     THEN /\ pc' = [pc EXCEPT ![p] = "inv_lock"]
          /\ UNCHANGED dialog
     ELSE /\ pc' = [pc EXCEPT ![p] = "reset_sale"]
          /\ dialog' = [dialog EXCEPT ![p] = "File not found"]
  /\ UNCHANGED <<accessVars, fileVars, callVars, uiVars, viewVars, envVars, hist>>

\* open(filepath, "r+") and flock(LOCK_EX), which blocks until granted
\* (inv_lock_unguarded: the same step without waiting for the lock.)
inv_lock_unguarded(p) ==
  /\ pc[p] = "inv_lock"
  /\ lockEx' = [lockEx EXCEPT ![ProductsFile] = @ \cup {p}]
  /\ pc' = [pc EXCEPT ![p] = "inv_read"]
  /\ UNCHANGED <<accessVars, files, lockSh, callVars, uiVars, dialog, viewVars, envVars,
                 hist>>

inv_lock(p) ==
  /\ pc[p] = "inv_lock"
  /\ CanLockEx(p, ProductsFile)
  /\ lockEx' = [lockEx EXCEPT ![ProductsFile] = @ \cup {p}]
  /\ pc' = [pc EXCEPT ![p] = "inv_read"]
  /\ UNCHANGED <<accessVars, files, lockSh, callVars, uiVars, dialog, viewVars, envVars,
                 hist>>

\* open() raises: "except Exception: showerror"
inv_open_fails(p) ==
  /\ pc[p] = "inv_lock"
  /\ faults < MaxFaults
  /\ faults' = faults + 1
  /\ dialog' = [dialog EXCEPT ![p] = "Could not update inventory"]
  /\ pc' = [pc EXCEPT ![p] = "reset_sale"]
  /\ UNCHANGED <<accessVars, fileVars, callVars, uiVars, viewVars, clock, nsales, hist>>

\* Under the lock, "lines = list(reader)":
\*   - no line at all: showerror is called while the lock is held;
\*   - a row without fields: row[0] raises IndexError, which leaves the with
\*     block through finally;
\*   - no stock to change (changes_made is False): nothing is written.
inv_read(p) ==
  /\ pc[p] = "inv_read"
  /\ LET lines == files[ProductsFile].lines IN
       /\ inv_lines' = [inv_lines EXCEPT ![p] = lines]
       /\ pc' = [pc EXCEPT ![p] =
            IF lines = <<>> THEN "inv_empty_dialog"
            ELSE IF \E i \in 2..Len(lines) : Len(lines[i]) = 0 THEN "inv_raise"
            ELSE IF ChangesMade(lines, sale_items[p]) THEN "inv_write"
            ELSE "inv_unlock"]
       /\ dialog' = [dialog EXCEPT ![p] =
            IF lines = <<>> THEN "Products file is empty" ELSE @]
  /\ hist' = [hist EXCEPT !.midread =
                IF hist.rewriting THEN @ \cup {p} ELSE @]
  /\ UNCHANGED <<accessVars, fileVars, buf, timestamp, cash_args, uiVars, viewVars,
                 envVars>>

\* Still under the lock: seek(0), writerows(updated_lines), truncate()
\* (truncate() flushes the stream before it cuts the file).
\* (inv_write_once: a write-back with replay detection, which writes the
\* table as it was read when a sale with the same quantities was applied.)
inv_write_once(p) ==
  /\ pc[p] = "inv_write"
  /\ files' = [files EXCEPT ![ProductsFile].lines =
       IF \E c \in hist.calls :
            /\ c.ts \in hist.applied
            /\ \A i \in 1..Len(sale_items[p]) :
                 \E k \in 1..Len(c.rows) :
                   /\ c.rows[k][2] = sale_items[p][i].barcode
                   /\ c.rows[k][4] = ToString(sale_items[p][i].qty)
       THEN inv_lines[p]
       ELSE UpdatedLines(inv_lines[p], sale_items[p])]
  /\ pc' = [pc EXCEPT ![p] = "inv_unlock"]
  /\ hist' = [hist EXCEPT !.applied = @ \cup {timestamp[p]}]
  /\ UNCHANGED <<accessVars, lockEx, lockSh, callVars, uiVars, dialog, viewVars, envVars>>

inv_write(p) ==
  /\ pc[p] = "inv_write"
  /\ files' = [files EXCEPT ![ProductsFile].lines =
                 UpdatedLines(inv_lines[p], sale_items[p])]
  /\ pc' = [pc EXCEPT ![p] = "inv_unlock"]
  /\ hist' = [hist EXCEPT !.applied = @ \cup {timestamp[p]}]
  /\ UNCHANGED <<accessVars, lockEx, lockSh, callVars, uiVars, dialog, viewVars, envVars>>

\* the user dismisses "Products file is empty"; return runs the finally
inv_empty_dismiss(p) ==
  /\ pc[p] = "inv_empty_dialog"
  /\ pc' = [pc EXCEPT ![p] = "inv_unlock"]
  /\ UNCHANGED <<accessVars, fileVars, callVars, uiVars, dialog, viewVars, envVars, hist>>

\* finally: flock(LOCK_UN), the with block closes the file; an exception on
\* its way out reaches "except Exception: showerror"
\* (inv_unlock_on_success: an unlock that is not in a finally clause, so that
\* an exception leaves the with block with the lock held.)
inv_unlock_on_success(p) ==
  /\ pc[p] \in {"inv_unlock", "inv_raise"}
  /\ lockEx' = [lockEx EXCEPT ![ProductsFile] =
                  IF pc[p] = "inv_raise" THEN @ ELSE @ \ {p}]
  /\ inv_lines' = [inv_lines EXCEPT ![p] = <<>>]
  /\ dialog' = [dialog EXCEPT ![p] =
       IF pc[p] = "inv_raise" THEN "Could not update inventory" ELSE @]
  /\ pc' = [pc EXCEPT ![p] = "reset_sale"]
  /\ UNCHANGED <<accessVars, files, lockSh, buf, timestamp, cash_args, uiVars, viewVars,
                 envVars, hist>>

inv_unlock(p) ==
  /\ pc[p] \in {"inv_unlock", "inv_raise"}
  /\ lockEx' = [lockEx EXCEPT ![ProductsFile] = @ \ {p}]
  /\ inv_lines' = [inv_lines EXCEPT ![p] = <<>>]
  /\ dialog' = [dialog EXCEPT ![p] =
       IF pc[p] = "inv_raise" THEN "Could not update inventory" ELSE @]
  /\ pc' = [pc EXCEPT ![p] = "reset_sale"]
  /\ UNCHANGED <<accessVars, files, lockSh, buf, timestamp, cash_args, uiVars, viewVars,
                 envVars, hist>>

update_inventory(p) ==
  \/ inv_exists(p)
  \/ inv_lock(p)
  \/ inv_open_fails(p)
  \/ inv_read(p)
  \/ inv_write(p)
  \/ inv_empty_dismiss(p)
  \/ inv_unlock(p)

\* POS_GUI.reset_sale and the destroy() of the payment window: the end of
\* finalize_sale
\* (reset_sale_keeps_cart: an end of finalize_sale that leaves sale_items.)
reset_sale_keeps_cart(p) ==
  /\ pc[p] = "reset_sale"
  /\ UNCHANGED sale_items
  /\ nsales' = [nsales EXCEPT ![p] = @ + 1]
  /\ pc' = [pc EXCEPT ![p] = "main"]
  /\ UNCHANGED <<accessVars, fileVars, callVars, products, last_added, total,
                 amount_paid, dialog, viewVars, clock, faults, hist>>

reset_sale(p) ==
  /\ pc[p] = "reset_sale"
  /\ sale_items' = [sale_items EXCEPT ![p] = <<>>]
  /\ nsales' = [nsales EXCEPT ![p] = @ + 1]
  /\ pc' = [pc EXCEPT ![p] = "main"]
  /\ UNCHANGED <<accessVars, fileVars, callVars, products, last_added, total,
                 amount_paid, dialog, viewVars, clock, faults, hist>>

\* ------------------------------------------------ checkout: cash flow
\* EntryExitWindow.save with a valid amount and concept enters
\* POS_GUI.log_cash_flow: timestamp, open for append.
cash_save(p, type, amount, concept) ==
  /\ pc[p] = "main"
  /\ clock < MaxTicks
  /\ amount # "" /\ IsFloatText(amount) /\ concept # ""
  /\ clock' = clock + 1
  /\ timestamp' = [timestamp EXCEPT ![p] = isoformat(clock)]
  /\ cash_args' = [cash_args EXCEPT ![p] =
                     <<type, FloatStr(ParseFloat(amount)), concept>>]
  /\ files' = [files EXCEPT ![CashFile] = IF @.exists THEN @ ELSE File(<<>>)]
  /\ pc' = [pc EXCEPT ![p] = "cash_lock"]
  /\ UNCHANGED <<accessVars, lockEx, lockSh, buf, inv_lines, uiVars, dialog, viewVars,
                 nsales, faults, hist>>

log_cash_flow(p) ==
  \/ append_lock(p, "cash_lock", CashFile, "cash_write")
  \/ append_write(p, "cash_write", CashFile,
                  <<<<timestamp[p]>> \o cash_args[p]>>, "cash_unlock")
  \/ append_unlock(p, "cash_unlock", CashFile, "cash_close")
  \/ append_close(p, "cash_close", CashFile, "main")

\* ------------------------------------------------ reports viewer
\* ReportsApp.init_sales_log: the same check-then-create, with its own header
reports_init_sales_log ==
  \/ init_log_exists(Reports, "boot", SalesFile, "init_sales_w", "scan_sales")
  \/ init_log_create(Reports, "init_sales_w", SalesFile, SalesHeaderReports,
                     "scan_sales")

\* datetime.fromisoformat(s).date(): the clock reading a timestamp was
\* written from and the calendar day it falls on; ValueError on any other text.
IsIsoText(s) == \E n \in 0..IntLimit : isoformat(n) = s
fromisoformat(s) == CHOOSE n \in 0..IntLimit : isoformat(n) = s
DateOf(s) == fromisoformat(s) \div TicksPerDay

\* csv.DictReader names the fields of every row after the first row of the
\* file: row[key] is the field under the column named key, and raises KeyError
\* when no column has that name.  (Every row of a ledger has as many fields as
\* its header.)
Field(header, row, key) ==
  row[CHOOSE i \in 1..Len(header) : header[i] = key]

\* The columns the viewer reads of a sales row and of a cash-flow row, the
\* amount column first.
SalesKeys == <<"precio_total", "nombre", "cantidad">>
CashKeys == <<"monto", "tipo", "concepto">>

\* start_date <= fromisoformat(row["timestamp"]).date() <= end_date
InRange(header, row) ==
  /\ start_date <= DateOf(Field(header, row, "timestamp"))
  /\ DateOf(Field(header, row, "timestamp")) <= end_date

\* What one pass of "for row in reader" raises on a row: KeyError for a column
\* the header does not name, ValueError for a timestamp or an amount that does
\* not parse; "" when the row is passed or shown.  The columns in keys are read
\* only of a row whose date is in the range.
RowRaises(header, row, keys) ==
  IF "timestamp" \notin Range(header) THEN "KeyError"
  ELSE IF ~IsIsoText(Field(header, row, "timestamp")) THEN "ValueError"
  ELSE IF ~InRange(header, row) THEN ""
  ELSE IF ~(Range(keys) \subseteq Range(header)) THEN "KeyError"
  ELSE IF ~IsFloatText(Field(header, row, keys[1])) THEN "ValueError"
  ELSE ""
\* the rows the loop passes before it ends or raises
Passed(lines, keys) ==
  LET bad == {i \in 2..Len(lines) : RowRaises(lines[1], lines[i], keys) # ""}
      stop == IF bad = {} THEN Len(lines) + 1
              ELSE CHOOSE i \in bad : \A j \in bad : i <= j
  IN SubSeq(lines, 2, stop - 1)
ScanRaises(lines, keys) ==
  IF Len(Passed(lines, keys)) + 1 >= Len(lines) THEN ""
  ELSE RowRaises(lines[1], lines[Len(Passed(lines, keys)) + 2], keys)
\* the rows inserted into the Treeview: the passed rows whose date is in range
Shown(lines, keys) ==
  IF Len(lines) < 2 THEN <<>>
  ELSE SelectSeq(Passed(lines, keys), LAMBDA row : InRange(lines[1], row))

\* the sum of column key over rows, from 0.0
RECURSIVE SumOf(_, _, _)
SumOf(header, rows, key) ==
  IF rows = <<>> THEN Float(0)
  ELSE FloatAdd(SumOf(header, SubSeq(rows, 1, Len(rows) - 1), key),
                ParseFloat(Field(header, rows[Len(rows)], key)))
\* daily_total += total_price, for the sales rows shown; entries_total and
\* exits_total += amount, for the cash-flow rows shown whose "tipo" is
\* "entradas" and "salidas"
Tally(f, header, rows) ==
  IF f = SalesFile
  THEN [totals EXCEPT !.daily_total = SumOf(header, rows, "precio_total")]
  ELSE [totals EXCEPT
          !.entries_total = SumOf(header,
             SelectSeq(rows, LAMBDA r : Field(header, r, "tipo") = "entradas"),
             "monto"),
          !.exits_total = SumOf(header,
             SelectSeq(rows, LAMBDA r : Field(header, r, "tipo") = "salidas"),
             "monto")]
NoTotals ==
  [daily_total |-> Float(0), entries_total |-> Float(0),
   exits_total |-> Float(0)]
\* the four labels set when both ledgers were read:
\* net_total = daily_total + entries_total - exits_total
LabelsOf(t) ==
  [report_total |-> t.daily_total, entradas_total |-> t.entries_total,
   salidas_total |-> t.exits_total,
   net_total |-> FloatSub(FloatAdd(t.daily_total, t.entries_total),
                          t.exits_total)]
Raised(p) == dialog[p] \in {"KeyError", "ValueError"}

\* ReportsApp.load_report_for_date.  It begins by emptying both Treeviews and
\* zeroing the three sums; then, one ledger after the other: open(f, "r") (a
\* missing file is skipped), flock(LOCK_SH), the rows in the range are shown
\* and summed, flock(LOCK_UN); at the end the labels are set.  An exception of
\* the loop leaves load_report_for_date through finally: the rows shown so far
\* stay, the labels are not set, and ReportsApp.__init__ does not return.
scan_open(at, f, begin, lock, next) ==
  /\ pc[Reports] = at
  /\ pc' = [pc EXCEPT ![Reports] = IF files[f].exists THEN lock ELSE next]
  /\ seen' = IF begin THEN [g \in Files |-> <<>>] ELSE seen
  /\ totals' = IF begin THEN NoTotals ELSE totals
  /\ labels' = IF ~files[f].exists /\ next = "idle"
               THEN LabelsOf(totals) ELSE labels
  /\ report_loaded' = (report_loaded \/ (~files[f].exists /\ next = "idle"))
  /\ UNCHANGED <<accessVars, fileVars, callVars, uiVars, dialog, tree, start_date,
                 end_date, envVars, hist>>

scan_lock(at, f, next) ==
  /\ pc[Reports] = at
  /\ CanLockSh(Reports, f)
  /\ lockSh' = [lockSh EXCEPT ![f] = @ \cup {Reports}]
  /\ pc' = [pc EXCEPT ![Reports] = next]
  /\ UNCHANGED <<accessVars, files, lockEx, callVars, uiVars, dialog, viewVars, envVars,
                 hist>>

scan_read(at, f, keys, next) ==
  /\ pc[Reports] = at
  /\ LET lines == files[f].lines IN
       /\ seen' = [seen EXCEPT ![f] = Shown(lines, keys)]
       /\ IF Len(lines) > 1 /\ ScanRaises(lines, keys) # ""
          THEN /\ dialog' = [dialog EXCEPT ![Reports] = ScanRaises(lines, keys)]
               /\ UNCHANGED totals
          ELSE /\ totals' = IF Len(lines) > 1
                            THEN Tally(f, lines[1], Shown(lines, keys))
                            ELSE totals
               /\ UNCHANGED dialog
  /\ pc' = [pc EXCEPT ![Reports] = next]
  /\ UNCHANGED <<accessVars, fileVars, callVars, uiVars, tree, report_loaded, start_date,
                 end_date, labels, envVars, hist>>

scan_unlock(at, f, next) ==
  /\ pc[Reports] = at
  /\ lockSh' = [lockSh EXCEPT ![f] = @ \ {Reports}]
  /\ pc' = [pc EXCEPT ![Reports] =
       IF ~Raised(Reports) THEN next
       ELSE IF report_loaded THEN "idle" ELSE "closed"]
  /\ labels' = IF ~Raised(Reports) /\ next = "idle"
               THEN LabelsOf(totals) ELSE labels
  /\ report_loaded' = (report_loaded \/ (~Raised(Reports) /\ next = "idle"))
  /\ UNCHANGED <<accessVars, files, lockEx, callVars, uiVars, dialog, tree, seen,
                 start_date, end_date, totals, envVars, hist>>

load_report_for_date ==
  \/ scan_open("scan_sales", SalesFile, TRUE, "scan_sales_lock", "scan_cash")
  \/ scan_lock("scan_sales_lock", SalesFile, "scan_sales_read")
  \/ scan_read("scan_sales_read", SalesFile, SalesKeys, "scan_sales_unlock")
  \/ scan_unlock("scan_sales_unlock", SalesFile, "scan_cash")
  \/ scan_open("scan_cash", CashFile, FALSE, "scan_cash_lock", "idle")
  \/ scan_lock("scan_cash_lock", CashFile, "scan_cash_read")
  \/ scan_read("scan_cash_read", CashFile, CashKeys, "scan_cash_unlock")
  \/ scan_unlock("scan_cash_unlock", CashFile, "idle")

\* date.today() of the reports viewer, and the days its calendars can select
Today == 0
ReportDates == {Today, Today + 1}
\* a date is picked (set_report_date, date_selected_from_calendar,
\* on_date_change): load_report_for_date runs again over the selected days
reports_reload(first, last) ==
  /\ pc[Reports] = "idle"
  /\ start_date' = first
  /\ end_date' = last
  /\ pc' = [pc EXCEPT ![Reports] = "scan_sales"]
  /\ dialog' = [dialog EXCEPT ![Reports] = ""]
  /\ UNCHANGED <<accessVars, fileVars, callVars, uiVars, tree, seen, report_loaded,
                 totals, labels, envVars, hist>>

\* ------------------------------------------------ product editor
\* ProductsApp.load_products: the table is read without a lock into the
\* Treeview.  A missing file is created with its header; a wrong header
\* rejects the file; rows that do not have 4 fields are left out.
EditorRows(f) ==
  IF f.exists /\ f.lines # <<>> /\ f.lines[1] = ProductsHeader
  THEN SelectSeq(Tail(f.lines), LAMBDA row : Len(row) = 4)
  ELSE <<>>
editor_load_products ==
  /\ pc[Editor] = "boot"
  /\ LET f == files[ProductsFile] IN
       /\ tree' = EditorRows(f)
       /\ pc' = [pc EXCEPT ![Editor] = IF f.exists THEN "idle" ELSE "w_exists"]
       /\ dialog' = [dialog EXCEPT ![Editor] =
            IF ~f.exists THEN "Archivo no encontrado"
            ELSE IF f.lines # <<>> /\ f.lines[1] # ProductsHeader
                 THEN "Error de Formato" ELSE @]
  /\ hist' = [hist EXCEPT !.midread =
                IF hist.rewriting THEN @ \cup {Editor} ELSE @]
  /\ UNCHANGED <<accessVars, fileVars, callVars, uiVars, seen, report_loaded, reportVars, envVars>>

\* ProductsApp.delete_product on the selected row (confirmed)
delete_product(i) ==
  /\ pc[Editor] = "idle"
  /\ i \in 1..Len(tree)
  /\ tree' = [j \in 1..(Len(tree) - 1) |-> IF j < i THEN tree[j] ELSE tree[j + 1]]
  /\ UNCHANGED <<accessVars, fileVars, pc, callVars, uiVars, dialog, seen, report_loaded, reportVars,
                 envVars, hist>>

\* ProductsApp.add_product on the four entry fields: barcode, name and price
\* are required, price must be a float and inventory (when given) an int, and
\* the barcode must not be that of a row of the Treeview; then the row is
\* appended, with inventory "0" when none was given.
editor_add_product(barcode, name, price, inventory) ==
  /\ pc[Editor] = "idle"
  /\ Len(tree) < MaxRows
  /\ IF barcode = "" \/ name = "" \/ price = ""
     THEN /\ dialog' = [dialog EXCEPT ![Editor] = "campos requeridos"]
          /\ UNCHANGED tree
     ELSE IF ~IsFloatText(price) \/ (inventory # "" /\ ~IsIntText(inventory))
     THEN /\ dialog' = [dialog EXCEPT ![Editor] = "deben ser números"]
          /\ UNCHANGED tree
     ELSE IF \E j \in 1..Len(tree) : tree[j][1] = barcode
     THEN /\ dialog' = [dialog EXCEPT ![Editor] = "El código de barras ya existe."]
          /\ UNCHANGED tree
     ELSE /\ tree' = Append(tree, <<barcode, name, price,
                                    IF inventory = "" THEN "0" ELSE inventory>>)
          /\ UNCHANGED dialog
  /\ UNCHANGED <<accessVars, fileVars, pc, callVars, uiVars, seen, report_loaded, reportVars, envVars,
                 hist>>

\* ProductsApp.on_double_click.save_edit: the cell (row i, column col) gets
\* new_value.  An unchanged value does nothing; a barcode that another row
\* has, a price that is no float and an inventory that is no int are
\* rejected with an error.
\* (save_edit_unchecked: an inline edit without the barcode validation.)
save_edit_unchecked(i, col, new_value) ==
  /\ pc[Editor] = "idle"
  /\ i \in 1..Len(tree)
  /\ col \in 1..4
  /\ IF new_value = tree[i][col]
     THEN UNCHANGED <<tree, dialog>>
     ELSE IF col = 3 /\ ~IsFloatText(new_value)
     THEN /\ dialog' = [dialog EXCEPT ![Editor] = "El precio debe ser un número."]
          /\ UNCHANGED tree
     ELSE IF col = 4 /\ ~IsIntText(new_value)
     THEN /\ dialog' = [dialog EXCEPT ![Editor] =
                          "El inventario debe ser un número entero."]
          /\ UNCHANGED tree
     ELSE /\ tree' = [tree EXCEPT ![i][col] = new_value]
          /\ UNCHANGED dialog
  /\ UNCHANGED <<accessVars, fileVars, pc, callVars, uiVars, seen, report_loaded, reportVars, envVars,
                 hist>>

save_edit(i, col, new_value) ==
  /\ pc[Editor] = "idle"
  /\ i \in 1..Len(tree)
  /\ col \in 1..4
  /\ IF new_value = tree[i][col]
     THEN UNCHANGED <<tree, dialog>>
     ELSE IF col = 1 /\ \E j \in 1..Len(tree) : j # i /\ tree[j][1] = new_value
     THEN /\ dialog' = [dialog EXCEPT ![Editor] = "El código de barras ya existe."]
          /\ UNCHANGED tree
     ELSE IF col = 3 /\ ~IsFloatText(new_value)
     THEN /\ dialog' = [dialog EXCEPT ![Editor] = "El precio debe ser un número."]
          /\ UNCHANGED tree
     ELSE IF col = 4 /\ ~IsIntText(new_value)
     THEN /\ dialog' = [dialog EXCEPT ![Editor] =
                          "El inventario debe ser un número entero."]
          /\ UNCHANGED tree
     ELSE /\ tree' = [tree EXCEPT ![i][col] = new_value]
          /\ UNCHANGED dialog
  /\ UNCHANGED <<accessVars, fileVars, pc, callVars, uiVars, seen, report_loaded, reportVars, envVars,
                 hist>>

\* ProductsApp.save_to_csv (confirmed): the rows of the Treeview go to
\* write_products_to_csv.
save_to_csv ==
  /\ pc[Editor] = "idle"
  /\ pc' = [pc EXCEPT ![Editor] = "w_exists"]
  /\ UNCHANGED <<accessVars, fileVars, callVars, uiVars, dialog, viewVars, envVars, hist>>

\* rows written at row offset off of the file (a stream opened "r+" writes at
\* its own position, over what is there)
Overlay(lines, off, rows) ==
  [i \in 1..(IF Len(lines) > off + Len(rows) THEN Len(lines) ELSE off + Len(rows))
     |-> IF i > off /\ i <= off + Len(rows) THEN rows[i - off] ELSE lines[i]]

\* tree.item(iid)["values"]: ttk converts every value that int() accepts to
\* an int (_convert_stringval), which csv.writer writes as str() of it.
TkValue(s) == IF IsIntText(s) THEN ToString(ParseInt(s)) ELSE s
TkValues(rows) ==
  [i \in 1..Len(rows) |-> [k \in 1..Len(rows[i]) |-> TkValue(rows[i][k])]]

\* ProductsApp.write_products_to_csv(products), products = the Treeview rows:
\*   w_exists : a missing file is created with the header row;
\*   w_lock   : open(filepath, "r+"), flock(LOCK_EX);
\*   w_write  : seek(0), truncate(), writerow(header), writerows(products):
\*              the file is cut to nothing, the rows go to the stream's buffer;
\*   w_unlock : finally: flock(LOCK_UN);
\*   w_close  : the with block ends, close() writes what the buffer holds.
write_products_to_csv ==
  \/ /\ pc[Editor] = "w_exists"
     /\ files' = [files EXCEPT ![ProductsFile] =
                    IF @.exists THEN @ ELSE File(<<ProductsHeader>>)]
     /\ pc' = [pc EXCEPT ![Editor] = "w_lock"]
     /\ UNCHANGED <<accessVars, lockEx, lockSh, callVars, uiVars, dialog, viewVars,
                    envVars, hist>>
  \/ /\ pc[Editor] = "w_lock"
     /\ CanLockEx(Editor, ProductsFile)
     /\ lockEx' = [lockEx EXCEPT ![ProductsFile] = @ \cup {Editor}]
     /\ pc' = [pc EXCEPT ![Editor] = "w_write"]
     /\ hist' = [hist EXCEPT !.saved = hist.applied]
     /\ UNCHANGED <<accessVars, files, lockSh, callVars, uiVars, dialog, viewVars, envVars>>
  \/ /\ pc[Editor] = "w_write"
     /\ LET w == BufferedWrite(<<>>, <<>>, <<ProductsHeader>> \o TkValues(tree)) IN
          /\ files' = [files EXCEPT ![ProductsFile].lines = w.out]
          /\ buf' = [buf EXCEPT ![Editor] = w.pending]
     /\ hist' = [hist EXCEPT !.rewriting = TRUE]
     /\ pc' = [pc EXCEPT ![Editor] = "w_unlock"]
     /\ UNCHANGED <<accessVars, lockEx, lockSh, timestamp, cash_args, inv_lines, uiVars,
                    dialog, viewVars, envVars>>
  \/ /\ pc[Editor] = "w_unlock"
     /\ lockEx' = [lockEx EXCEPT ![ProductsFile] = @ \ {Editor}]
     /\ pc' = [pc EXCEPT ![Editor] = "w_close"]
     /\ UNCHANGED <<accessVars, files, lockSh, callVars, uiVars, dialog, viewVars,
                    envVars, hist>>
  \/ /\ pc[Editor] = "w_close"
     /\ files' = [files EXCEPT ![ProductsFile].lines =
                    Overlay(@, 1 + Len(tree) - Len(buf[Editor]), buf[Editor])]
     /\ buf' = [buf EXCEPT ![Editor] = <<>>]
     /\ hist' = [hist EXCEPT !.rewriting = FALSE]
     /\ pc' = [pc EXCEPT ![Editor] = "idle"]
     /\ UNCHANGED <<accessVars, lockEx, lockSh, timestamp, cash_args, inv_lines, uiVars,
                    dialog, viewVars, envVars>>

\* ------------------------------------------------ the environment
\* products.csv is changed from outside the three programs after the checkout
\* has started: removed, cut to nothing, or given a blank line.
products_file_fault(kind) ==
  /\ faults < MaxFaults
  /\ files[ProductsFile].exists
  /\ lockEx[ProductsFile] = {}
  /\ \A p \in Pos : pc[p] # "boot"
  /\ faults' = faults + 1
  /\ files' = [files EXCEPT ![ProductsFile] =
       CASE kind = "removed" -> Absent
         [] kind = "empty" -> File(<<>>)
         [] OTHER -> File(Append(@.lines, <<>>))]
  /\ UNCHANGED <<accessVars, lockEx, lockSh, pc, callVars, uiVars, dialog, viewVars,
                 clock, nsales, hist>>

\* ------------------------------------------------ initial states
ProductsTable ==
  <<ProductsHeader,
    <<"A", "apple", "2", "2">>,
    <<"B", "bread", "1", "1">>>>

\* The installation before any program has run (no ledger yet) and after an
\* earlier run (both ledgers with their header rows; sales.csv was created by
\* the program that ran first, the checkout or the reports viewer).
FreshFiles ==
  [f \in Files |-> IF f = ProductsFile THEN File(ProductsTable) ELSE Absent]
UsedFiles(header) ==
  [f \in Files |-> CASE f = ProductsFile -> File(ProductsTable)
                     [] f = SalesFile -> File(<<header>>)
                     [] OTHER -> File(<<CashHeader>>)]

\* Product tables a shop can have: the plain one, one with a row that has no
\* stock field (the checkout loads it with stock 0), one where a barcode was
\* entered twice, one whose barcode starts with a zero.
ShortRowTable ==
  <<ProductsHeader,
    <<"A", "apple", "2", "2">>,
    <<"C", "cola", "1">>>>
DuplicateTable ==
  <<ProductsHeader,
    <<"A", "apple", "2", "2">>,
    <<"A", "pear", "1", "1">>,
    <<"B", "bread", "1", "1">>>>
LeadingZeroTable ==
  <<ProductsHeader,
    <<"07", "tea", "1", "1">>>>
Tables == {ProductsTable, ShortRowTable, DuplicateTable, LeadingZeroTable}
\* an installation after an earlier run of the checkout, with this table
Installation(table) ==
  [UsedFiles(SalesHeaderPos) EXCEPT ![ProductsFile] = File(table)]

\* A product table whose header is not the editor's (the last column is named
\* in English): the checkout reads its rows, the editor rejects the file.
WrongHeaderTable ==
  <<<<"barcode", "name", "price", "inventory">>,
    <<"A", "apple", "2", "2">>,
    <<"B", "bread", "1", "1">>>>

\* Product tables with one row that is not a product row: a blank line, two
\* fields, three fields, a price or a stock that is no number; before, between
\* or after the two rows of the plain table.
BadRows ==
  {<<>>, <<"X", "junk">>, <<"C", "cola", "1">>, <<"Y", "yam", "abc", "1">>,
   <<"Z", "zed", "1", "x">>}
InsertRow(table, k, row) ==
  SubSeq(table, 1, k) \o <<row>> \o SubSeq(table, k + 1, Len(table))
LoadTables ==
  Tables \cup {InsertRow(ProductsTable, k, row) : k \in 1..3, row \in BadRows}

\* ------------------------------------------------ login.py: UserManager
\* The credentials file as load_users reads it: username -> password, role.
\* hash_password salts and hashes; verify_password accepts exactly the password
\* that was hashed.
hash_password(password) == <<"pbkdf2_hmac", password>>
verify_password(stored_password, provided_password) ==
  stored_password[2] = provided_password

Admins(table) == {u \in DOMAIN table : table[u].role = "admin"}

\* (success, users saved) of UserManager.create_user
create_user(table, username, password, role) ==
  IF username \in DOMAIN table THEN [ok |-> FALSE, users |-> table]
  ELSE IF role \notin {"admin", "cashier"} THEN [ok |-> FALSE, users |-> table]
  ELSE [ok |-> TRUE,
        users |-> [u \in DOMAIN table \cup {username} |->
                     IF u = username
                       THEN [password |-> hash_password(password), role |-> role]
                       ELSE table[u]]]

\* (success, users saved) of UserManager.delete_user
delete_user(table, username) ==
  IF username \notin DOMAIN table THEN [ok |-> FALSE, users |-> table]
  ELSE IF username = "admin" /\ Cardinality(Admins(table)) = 1
    THEN [ok |-> FALSE, users |-> table]
  ELSE [ok |-> TRUE, users |-> [u \in DOMAIN table \ {username} |-> table[u]]]

\* (success, users saved) of UserManager.change_password
change_password(table, username, new_password) ==
  IF username \notin DOMAIN table THEN [ok |-> FALSE, users |-> table]
  ELSE [ok |-> TRUE,
        users |-> [table EXCEPT ![username].password =
                                  hash_password(new_password)]]

\* the role UserManager.authenticate returns ("" for None)
authenticate(table, username, password) ==
  IF username \in DOMAIN table
       /\ verify_password(table[username].password, password)
    THEN table[username].role
    ELSE ""

\* ensure_credentials_file on an installation without .credentials
DefaultUsers == create_user(<<>>, "admin", "password", "admin").users

\* what the people at the terminals type
UserNames == {"admin", "bob"}
Passwords == {"password", "1234"}
Roles == {"admin", "cashier"}

\* ------------------------------------------------ login.py: LoginSystem
\* LoginSystem.login at the prompt of terminal s; a refused login leaves the
\* prompt as it is.
login(s, username, password) ==
  /\ current_user[s] = ""
  /\ LET role == authenticate(users, username, password) IN
       IF role # ""
         THEN /\ current_user' = [current_user EXCEPT ![s] = username]
              /\ current_role' = [current_role EXCEPT ![s] = role]
         ELSE UNCHANGED <<current_user, current_role>>
  /\ UNCHANGED <<fileVars, pc, callVars, uiVars, dialog, viewVars, envVars,
                 users, child, user_role, launched, hist>>

\* the menu of terminal s is waiting for a choice
AtMenu(s) == current_user[s] # "" /\ child[s] = ""

\* admin_menu choice 9, cashier_menu choice 3, then the reset in run()
logout(s) ==
  /\ AtMenu(s)
  /\ current_role[s] \in Roles
  /\ current_user' = [current_user EXCEPT ![s] = ""]
  /\ current_role' = [current_role EXCEPT ![s] = ""]
  /\ UNCHANGED <<fileVars, pc, callVars, uiVars, dialog, viewVars, envVars,
                 users, child, user_role, launched, hist>>

\* choice 1 of either menu: run_python_app("pos_gui.py") starts checkout
\* process p with the role of the session and waits for it (subprocess.run);
\* __main__ of pos_gui.py hands sys.argv[1] to POS_GUI as user_role.
run_python_app(s, p) ==
  /\ AtMenu(s)
  /\ current_role[s] \in Roles
  /\ pc[p] = "off"
  /\ pc' = [pc EXCEPT ![p] = "boot"]
  /\ user_role' = [user_role EXCEPT ![p] = current_role[s]]
  /\ child' = [child EXCEPT ![s] = p]
  /\ UNCHANGED <<fileVars, callVars, uiVars, dialog, viewVars, envVars,
                 users, current_user, current_role, launched, hist>>

\* subprocess.run returns when the checkout has ended
run_python_app_returns(s) ==
  /\ child[s] # ""
  /\ pc[child[s]] = "closed"
  /\ child' = [child EXCEPT ![s] = ""]
  /\ UNCHANGED <<fileVars, pc, callVars, uiVars, dialog, viewVars, envVars,
                 users, current_user, current_role, user_role, launched, hist>>

\* admin_menu choice 5: a name, a password typed twice, role choice 1 or 2
add_user_menu(s, username, password, role) ==
  /\ AtMenu(s)
  /\ current_role[s] = "admin"
  /\ username # "" /\ password # "" /\ role \in Roles
  /\ users' = create_user(users, username, password, role).users
  /\ UNCHANGED <<fileVars, pc, callVars, uiVars, dialog, viewVars, envVars,
                 current_user, current_role, child, user_role, launched, hist>>

\* admin_menu choice 6, confirmed with "yes": the session's own account is
\* refused here, every other name goes to UserManager.delete_user
delete_user_menu(s, username) ==
  /\ AtMenu(s)
  /\ current_role[s] = "admin"
  /\ DOMAIN users # {}
  /\ username # "" /\ username # current_user[s]
  /\ users' = delete_user(users, username).users
  /\ UNCHANGED <<fileVars, pc, callVars, uiVars, dialog, viewVars, envVars,
                 current_user, current_role, child, user_role, launched, hist>>

\* admin_menu choice 7: a listed name and a new password typed twice
change_password_menu(s, username, new_password) ==
  /\ AtMenu(s)
  /\ current_role[s] = "admin"
  /\ username \in DOMAIN users
  /\ new_password # ""
  /\ users' = change_password(users, username, new_password).users
  /\ UNCHANGED <<fileVars, pc, callVars, uiVars, dialog, viewVars, envVars,
                 current_user, current_role, child, user_role, launched, hist>>

\* ------------------------------------------------ checkout: other windows
SettingsScript == "settings_gui.py"
ProductsScript == "products_gui.py"
ReportsScript == "reports_gui.py"

\* the function keys POS_GUI.create_widgets binds to an open_*_window (F1 is
\* show_payment_window, F12 is exit_app), and the buttons _create_menu_bar
\* packs, each with the script its handler starts
KeyBindings(p) ==
  {<<"F2", SettingsScript>>, <<"F3", ProductsScript>>}
    \cup (IF user_role[p] = "admin" THEN {<<"F4", ReportsScript>>} ELSE {})
MenuButtons(p) ==
  {<<"F3 - Products", ProductsScript>>}
    \cup (IF user_role[p] = "admin"
            THEN {<<"F2 - Settings", SettingsScript>>,
                  <<"F4 - Reports", ReportsScript>>}
            ELSE {})

\* open_settings_window / open_products_window / open_reports_window: Popen
\* of the script (all three scripts are installed)
open_window(p, script) ==
  /\ launched' = [launched EXCEPT ![p] = @ \cup {script}]
  /\ UNCHANGED <<fileVars, pc, callVars, uiVars, dialog, viewVars, envVars,
                 loginVars, user_role, hist>>

\* a key press in the main window (the payment window holds the grab while it
\* is open) and a click on a button of the menu bar
key_press(p, key) ==
  /\ pc[p] = "main"
  /\ \E b \in KeyBindings(p) : b[1] = key /\ open_window(p, b[2])
button_click(p, text) ==
  /\ pc[p] = "main"
  /\ \E b \in MenuButtons(p) : b[1] = text /\ open_window(p, b[2])
Keys == {"F2", "F3", "F4", "F5"}
ButtonTexts == {"F2 - Settings", "F3 - Products", "F4 - Reports"}

\* Nothing is in progress: no lock, no open stream, no cart, no history.
AtRest ==
  /\ lockEx = [f \in Files |-> {}]
  /\ lockSh = [f \in Files |-> {}]
  /\ buf = [p \in Procs |-> <<>>]
  /\ timestamp = [p \in Pos |-> ""]
  /\ cash_args = [p \in Pos |-> <<>>]
  /\ inv_lines = [p \in Pos |-> <<>>]
  /\ sale_items = [p \in Pos |-> <<>>]
  /\ last_added = [p \in Pos |-> ""]
  /\ total = [p \in Pos |-> Float(0)]
  /\ amount_paid = [p \in Pos |-> Float(0)]
  /\ dialog = [p \in Procs |-> ""]
  /\ tree = <<>>
  /\ seen = [f \in Files |-> <<>>]
  /\ report_loaded = FALSE
  /\ start_date = Today
  /\ end_date = Today
  /\ totals = NoTotals
  /\ labels = LabelsOf(NoTotals)
  /\ clock = 0
  /\ nsales = [p \in Pos |-> 0]
  /\ faults = 0
  /\ users = DefaultUsers
  /\ current_user = [s \in Logins |-> ""]
  /\ current_role = [s \in Logins |-> ""]
  /\ child = [s \in Logins |-> ""]
  /\ user_role = [p \in Pos |-> "admin"]
  /\ launched = [p \in Pos |-> {}]
  /\ hist = HistInit

\* The processes in running are about to start on one of the installations.
InitOf(running, installations) ==
  /\ files \in installations
  /\ pc = [p \in Procs |-> IF p \in running THEN "boot" ELSE "off"]
  /\ products = [p \in Pos |-> <<>>]
  /\ AtRest

\* The processes in running have started on an installation whose sales.csv
\* the reports viewer created: a checkout has loaded the product table and
\* found both ledgers, the reports viewer has found the sales ledger and is
\* about to scan it.
Started(running) ==
  /\ files = UsedFiles(SalesHeaderReports)
  /\ pc = [p \in Procs |->
             IF p \notin running THEN "off"
             ELSE IF p \in Pos THEN "main"
             ELSE IF p = Reports THEN "scan_sales" ELSE "boot"]
  /\ products = [p \in Pos |->
                   IF p \in running THEN LoadProducts(ProductsTable) ELSE <<>>]
  /\ AtRest

\* ------------------------------------------------ next-state relations
\* what the cashier types: a barcode, a name, an unknown code; "code*n"
EntryTexts ==
  {[base |-> b, star |-> FALSE, n |-> ""] : b \in {"A", "B", "apple", "zzz"}}
    \cup {[base |-> "A", star |-> TRUE, n |-> n] : n \in {"2", "0", "x"}}
\* the codes each session scans in the concurrent specifications, in order
Scans(p) == IF p = "pos1" THEN <<"A", "B">> ELSE <<"A">>
AmountTexts == {"abc", "nan", "2", "20"}

Startup(p) ==
  \/ load_products(p)
  \/ init_sales_log(p)
  \/ init_cash_flow_log(p)

Cart(p, texts) ==
  \/ \E t \in texts : add_product(p, t.base, t.star, t.n)
  \/ add_one_more_last_product(p)
  \/ \E b \in {"A", "B"} : delete_item(p, b)

Payment(p, amounts) ==
  \/ show_payment_window(p)
  \/ \E a \in amounts : calculate_change(p, a)
  \/ payment_destroy(p)

finalize_sale(p) ==
  \/ log_sale_open(p)
  \/ log_sale(p)
  \/ update_inventory(p)
  \/ reset_sale(p)

\* One checkout session, every cashier input, every failure of the files.
NextSale ==
  \/ Startup("pos1")
  \/ Cart("pos1", EntryTexts)
  \/ Payment("pos1", AmountTexts)
  \/ finalize_sale("pos1")
  \/ log_sale_open_fails("pos1")
  \/ \E type \in {"entries", "exits"} : cash_save("pos1", type, "2", "change")
  \/ log_cash_flow("pos1")
  \/ exit_app("pos1")
  \/ \E k \in {"removed", "empty", "blank"} : products_file_fault(k)

SpecSale ==
  InitOf({"pos1"}, {FreshFiles, UsedFiles(SalesHeaderPos)}) /\ [][NextSale]_vars

\* a session that scans Scans(p), one code after the other, and is paid
Scan(p) ==
  /\ Len(sale_items[p]) < Len(Scans(p))
  /\ add_product(p, Scans(p)[Len(sale_items[p]) + 1], FALSE, "")

Selling(p) ==
  \/ Scan(p)
  \/ show_payment_window(p)
  \/ calculate_change(p, "20")
  \/ finalize_sale(p)

Session(p) ==
  \/ Startup(p)
  \/ Selling(p)

\* One checkout session that starts, scans, is paid (or not) and finalizes,
\* with every failure of the files.
NextFinalize ==
  \/ Startup("pos1")
  \/ Scan("pos1")
  \/ Payment("pos1", AmountTexts)
  \/ finalize_sale("pos1")
  \/ log_sale_open_fails("pos1")
  \/ \E k \in {"removed", "empty", "blank"} : products_file_fault(k)

SpecFinalize ==
  InitOf({"pos1"}, {FreshFiles, UsedFiles(SalesHeaderPos)})
    /\ [][NextFinalize]_vars

\* One checkout session on any of the product tables: every cart of the
\* table's products (one of them by "code*2"), paid and finalized.
ApplyTexts ==
  {[base |-> b, star |-> FALSE, n |-> ""] : b \in {"A", "B", "C"}}
    \cup {[base |-> "B", star |-> TRUE, n |-> "2"]}
NextApply ==
  \/ Startup("pos1")
  \/ \E t \in ApplyTexts : add_product("pos1", t.base, t.star, t.n)
  \/ Selling("pos1")
  \/ \E k \in {"empty", "blank"} : products_file_fault(k)

SpecApply ==
  InitOf({"pos1"}, {FreshFiles} \cup {Installation(t) : t \in Tables})
    /\ [][NextApply]_vars

\* The product editor loads any of the product tables and saves it as loaded;
\* a checkout starts before or after on the same table.
NextRoundTrip ==
  \/ editor_load_products
  \/ save_to_csv
  \/ write_products_to_csv
  \/ Startup("pos1")

SpecRoundTrip ==
  InitOf({"pos1", Editor}, {FreshFiles} \cup {Installation(t) : t \in Tables})
    /\ [][NextRoundTrip]_vars

\* One started checkout before the commit: every cart operation, the payment
\* window, its amounts and its cancel.
NextCart ==
  \/ Cart("pos1", EntryTexts)
  \/ Payment("pos1", AmountTexts)

SpecCart == Started({"pos1"}) /\ [][NextCart]_vars

\* The product editor on a table with unique barcodes: it loads the table,
\* then products are added, edited in place and deleted.
AddBarcodes == {"", "B", "C"}
\* the cells edited (column, text typed): a barcode, a name, a price and an
\* inventory that are no numbers
EditCells == {<<1, "B">>, <<1, "7">>, <<2, "B">>, <<3, "B">>, <<4, "B">>}
NextEditor ==
  \/ editor_load_products
  \/ \E b \in AddBarcodes, price \in {"1", "abc"}, inv \in {"", "x"} :
       editor_add_product(b, "new", price, inv)
  \/ \E i \in 1..MaxRows, e \in EditCells : save_edit(i, e[1], e[2])
  \/ \E i \in 1..MaxRows : delete_product(i)

SpecEditor ==
  InitOf({Editor}, {Installation(ProductsTable), Installation(LeadingZeroTable)})
    /\ [][NextEditor]_vars

\* A checkout and the product editor start on any of the product tables.
NextLoad ==
  \/ Startup("pos1")
  \/ editor_load_products

SpecLoad ==
  InitOf({"pos1", Editor}, {FreshFiles} \cup {Installation(t) : t \in LoadTables})
    /\ [][NextLoad]_vars

\* A checkout session and the reports viewer start on an installation: the
\* checkout sells and records cash entries and exits, the viewer reports over
\* the days that are picked.
CashTypes == {"entries", "exits"}
NextReport ==
  \/ Session("pos1")
  \/ \E type \in CashTypes : cash_save("pos1", type, "2", "change")
  \/ log_cash_flow("pos1")
  \/ reports_init_sales_log
  \/ load_report_for_date
  \/ \E first, last \in ReportDates : reports_reload(first, last)
  \/ products_file_fault("empty")

SpecReport ==
  InitOf({"pos1", Reports},
         {FreshFiles, UsedFiles(SalesHeaderPos), UsedFiles(SalesHeaderReports)})
    /\ [][NextReport]_vars

\* A started checkout, the product editor and the reports viewer on the same
\* files: the checkout makes one sale and records cash, the editor loads and saves the
\* table, the viewer reports, and products.csv can be cut to nothing while
\* the editor has no stream open on it.
NextLocks ==
  \/ (nsales["pos1"] = 0 /\ Selling("pos1"))
  \/ cash_save("pos1", "entries", "2", "change")
  \/ log_cash_flow("pos1")
  \/ editor_load_products
  \/ save_to_csv
  \/ write_products_to_csv
  \/ load_report_for_date
  \/ (pc[Editor] # "w_close" /\ products_file_fault("empty"))

SpecLocks == Started({"pos1", Editor, Reports}) /\ [][NextLocks]_vars

\* Two started checkouts that sell while products.csv can be cut to nothing.
\* The steps of log_sale and update_inventory that need no user (everything
\* but the dismissal of a message box) are taken whenever they can be.
Unattended(p) ==
  \/ log_sale(p)
  \/ inv_exists(p)
  \/ inv_lock(p)
  \/ inv_read(p)
  \/ inv_write(p)
  \/ inv_unlock(p)
NextRelease ==
  \/ \E p \in Pos : Selling(p)
  \/ products_file_fault("empty")

SpecRelease ==
  Started(Pos) /\ [][NextRelease]_vars /\ \A p \in Pos : WF_vars(Unattended(p))

\* One started checkout: products are added to the cart and deleted from it,
\* the payment window is opened, given an amount that is enough, cancelled or
\* committed, with products.csv cut to nothing or unreadable.
CommitTexts ==
  {[base |-> b, star |-> FALSE, n |-> ""] : b \in {"A", "B"}}
    \cup {[base |-> "A", star |-> TRUE, n |-> "0"]}
NextCommit ==
  \/ \E t \in CommitTexts : add_product("pos1", t.base, t.star, t.n)
  \/ delete_item("pos1", "A")
  \/ Payment("pos1", {"20"})
  \/ finalize_sale("pos1")
  \/ products_file_fault("empty")

SpecCommit == Started({"pos1"}) /\ [][NextCommit]_vars

\* The product editor loads a table, the user adds a product or renames one,
\* deletes nothing, and saves; a checkout starts on the same table.
NextSave ==
  \/ editor_load_products
  \/ editor_add_product("C", "cola", "1", "")
  \/ save_edit(1, 2, "pear")
  \/ save_to_csv
  \/ write_products_to_csv
  \/ load_products("pos1")

SpecSave ==
  InitOf({"pos1", Editor},
         {Installation(ProductsTable), Installation(WrongHeaderTable)})
    /\ [][NextSave]_vars

\* Two terminals at the login prompt of an installation with the default
\* credentials: people log in and out, administrators add and delete users
\* and change passwords, either menu starts the checkout, and the person at
\* the checkout presses the function keys and clicks the buttons of the menu
\* bar.
NextAccess ==
  \/ \E s \in Logins, u \in UserNames, w \in Passwords : login(s, u, w)
  \/ \E s \in Logins : logout(s)
  \/ \E s \in Logins, u \in UserNames, w \in Passwords, r \in Roles :
       add_user_menu(s, u, w, r)
  \/ \E s \in Logins, u \in UserNames : delete_user_menu(s, u)
  \/ \E s \in Logins, u \in UserNames, w \in Passwords :
       change_password_menu(s, u, w)
  \/ \E s \in Logins : run_python_app(s, "pos1")
  \/ \E s \in Logins : run_python_app_returns(s)
  \/ Startup("pos1")
  \/ \E k \in Keys : key_press("pos1", k)
  \/ \E t \in ButtonTexts : button_click("pos1", t)
  \/ exit_app("pos1")
SpecAccess == InitOf({}, {FreshFiles}) /\ [][NextAccess]_vars

\* Two started checkout sessions on the same product table.
NextInventory ==
  \/ \E p \in Pos : Selling(p)
  \/ products_file_fault("empty")

SpecInventory == Started(Pos) /\ [][NextInventory]_vars

\* Two checkout sessions and the reports viewer start on a fresh installation.
NextLedger ==
  \/ \E p \in Pos : Session(p)
  \/ reports_init_sales_log
  \/ load_report_for_date
  \/ reports_reload(Today, Today)
  \/ products_file_fault("empty")

SpecLedger == InitOf(Pos \cup {Reports}, {FreshFiles}) /\ [][NextLedger]_vars

\* Two started checkout sessions and the reports viewer on the same ledgers
\* and the same product table.
NextAppend ==
  \/ \E p \in Pos : Selling(p)
  \/ load_report_for_date
  \/ reports_reload(Today, Today)
  \/ products_file_fault("empty")

SpecAppend == Started(Pos \cup {Reports}) /\ [][NextAppend]_vars

\* A checkout session and the product editor on the same product table.
NextTable ==
  \/ Session("pos1")
  \/ editor_load_products
  \/ \E i \in 1..2 : delete_product(i)
  \/ save_to_csv
  \/ write_products_to_csv

SpecTable ==
  InitOf({"pos1", Editor}, {FreshFiles, UsedFiles(SalesHeaderPos)})
    /\ [][NextTable]_vars

\* ------------------------------------------------------------- properties
LogPcs == {"log_lock", "log_write", "log_unlock", "log_close"}
InvPcs == {"inv_exists", "inv_lock", "inv_read", "inv_write", "inv_empty_dialog",
           "inv_raise", "inv_unlock"}
\* the log_sale call with timestamp ts, and whether all of rows are in lines
CallOf(ts) == CHOOSE c \in hist.calls : c.ts = ts
RowsIn(rows, lines) == \A i \in 1..Len(rows) : rows[i] \in Range(lines)
\* where the rows of one call stand in lines
Positions(lines, rows) == {i \in 1..Len(lines) : lines[i] \in Range(rows)}
\* the records of a ledger: its lines without header rows
Records(lines) == SelectSeq(lines, LAMBDA l : l[1] # "timestamp")
\* the stock a product starts with, and the quantity of it in the sales of
\* done (a set of timestamps), among the first n timestamps
InitialStock(b) == ParseInt(LastRow(Tail(ProductsTable), b)[4])
QtyIn(rows, b) ==
  IF \E i \in 1..Len(rows) : rows[i][2] = b
  THEN ParseInt(rows[CHOOSE i \in 1..Len(rows) : rows[i][2] = b][4])
  ELSE 0
RECURSIVE Sold(_, _, _)
Sold(n, b, done) ==
  IF n = 0 THEN 0
  ELSE Sold(n - 1, b, done) +
       (IF isoformat(n - 1) \in done
        THEN QtyIn(CallOf(isoformat(n - 1)).rows, b) ELSE 0)
\* every stock in the table is the initial stock less what was sold
StockIsInitialLessSold(lines) ==
  \A i \in 2..Len(lines) :
    Len(lines[i]) >= 4 =>
      lines[i][4] =
        ToString(InitialStock(lines[i][1]) - Sold(clock, lines[i][1], hist.applied))
InventoryErrors ==
  {"File not found", "Products file is empty", "Could not update inventory"}

\* C1: within finalize_sale the ledger append of a sale has completed before
\* its inventory decrement starts: while update_inventory runs, and for every
\* sale whose decrement was written, log_sale has returned and all rows of the
\* sale are in sales.csv; a log_sale that raised never reaches update_inventory.
C1_LedgerBeforeInventory ==
  /\ \A p \in Pos :
       pc[p] \in InvPcs =>
         /\ timestamp[p] \in hist.logged
         /\ timestamp[p] \notin hist.failed
         /\ RowsIn(CallOf(timestamp[p]).rows, files[SalesFile].lines)
  /\ \A ts \in hist.applied :
       /\ ts \in hist.logged
       /\ ts \notin hist.failed
       /\ RowsIn(CallOf(ts).rows, files[SalesFile].lines)

\* a log_sale raised, the cashier finalized again, and the decrement of that
\* sale was written
C1_Witness ==
  \E p \in Pos :
    /\ pc[p] = "reset_sale"
    /\ timestamp[p] \in hist.applied
    /\ hist.failed # {}

\* C2: when update_inventory fails (products.csv missing, empty, or open/read
\* raising), it returns with an error dialog shown, and no step of
\* update_inventory changes sales.csv: the rows of the sale stay in the ledger.
InventoryFails(p) ==
  /\ pc'[p] = "reset_sale"
  /\ \/ pc[p] \in {"inv_exists", "inv_lock", "inv_raise"}
     \/ pc[p] = "inv_unlock" /\ files[ProductsFile].lines = <<>>
C2_InventoryFailureKeepsLedger ==
  [][\A p \in Pos :
       /\ pc[p] \in InvPcs => files'[SalesFile] = files[SalesFile]
       /\ InventoryFails(p) =>
            /\ dialog'[p] \in InventoryErrors
            /\ timestamp[p] \notin hist'.applied
            /\ RowsIn(CallOf(timestamp[p]).rows, files'[SalesFile].lines)]_vars

\* update_inventory has returned with an error and without a decrement; the
\* rows of the sale are in the ledger
C2_Witness ==
  \E p \in Pos :
    /\ pc[p] = "reset_sale"
    /\ dialog[p] \in InventoryErrors
    /\ timestamp[p] \notin hist.applied
    /\ CallOf(timestamp[p]).rows # <<>>
    /\ RowsIn(CallOf(timestamp[p]).rows, files[SalesFile].lines)

\* C3: when no append is in progress, sales.csv holds exactly the rows of the
\* log_sale calls that returned, each row once, and the rows of each call stand
\* together, in the order of the call.
C3_AppendsStayWhole ==
  LET lines == files[SalesFile].lines IN
    (\A p \in Pos : pc[p] \notin LogPcs) =>
      /\ \A c \in hist.calls :
           c.ts \in hist.logged =>
             \E k \in 0..(Len(lines) - Len(c.rows)) :
               SubSeq(lines, k + 1, k + Len(c.rows)) = c.rows
      /\ \A i \in 2..Len(lines) :
           /\ \E c \in hist.calls : c.ts \in hist.logged /\ lines[i] \in Range(c.rows)
           /\ \A j \in 2..Len(lines) : lines[j] = lines[i] => j = i

\* C4: when an append releases its lock (log_sale, log_cash_flow), every row
\* it wrote has been flushed to the file: none is left in the stream's buffer.
C4_FlushedBeforeUnlock ==
  \A p \in Pos : pc[p] \in {"log_close", "cash_close"} => buf[p] = <<>>

\* C5: the rows the reports scan read from sales.csv under its shared lock
\* hold, of every log_sale call, none of its rows or all of them.
C5_ScanSeesWholeAppends ==
  \A c \in hist.calls :
    LET n == Cardinality(Positions(seen[SalesFile], c.rows))
    IN n = 0 \/ n = Len(c.rows)

\* C6: update_inventory calls of two checkouts serialize on the exclusive
\* lock: at most one is between its lock and its unlock, the lines it read
\* are still the lines of the file when it writes, and every stock in
\* products.csv is the initial stock less the quantities of all sales whose
\* decrement was written (no lost update).
C6_InventoryUpdatesSerialize ==
  /\ \A p, q \in Pos :
       (pc[p] \in InvPcs \ {"inv_exists", "inv_lock"}
          /\ pc[q] \in InvPcs \ {"inv_exists", "inv_lock"}) => p = q
  /\ \A p \in Pos :
       pc[p] = "inv_write" => inv_lines[p] = files[ProductsFile].lines
  /\ StockIsInitialLessSold(files[ProductsFile].lines)

\* both checkouts sold product A and both decrements were written
C6_Witness ==
  /\ Cardinality(hist.applied) = 2
  /\ \A p \in Pos : pc[p] = "main" /\ nsales[p] = 1
  /\ \E i \in 2..Len(files[ProductsFile].lines) :
       /\ files[ProductsFile].lines[i][1] = "A"
       /\ files[ProductsFile].lines[i][4] = ToString(InitialStock("A") - 2)

\* C7: after the editor has saved, every stock decrement that a sale had
\* committed before the save took its lock (so also one committed after the
\* editor's load) is still in products.csv: no stock is above the initial
\* stock less the quantities of those sales.
C7_EditorSaveKeepsDecrement ==
  (pc[Editor] = "idle" /\ ~hist.rewriting) =>
    \A i \in 2..Len(files[ProductsFile].lines) :
      LET row == files[ProductsFile].lines[i] IN
        (Len(row) >= 4 /\ IsIntText(row[4])) =>
          ParseInt(row[4]) + Sold(clock, row[1], hist.saved)
            <= InitialStock(row[1])

\* C8: no process reads products.csv while a rewrite of it is between its
\* truncate and its last write.
C8_NoReadOfIntermediateTable == hist.midread = {}

\* C9: the ledgers are append-only under every interleaving, start-up
\* included: no step removes or changes a record of sales.csv or cash_flow.csv.
C9_LedgersAppendOnly ==
  [][\A f \in {SalesFile, CashFile} :
       IsPrefix(Records(files[f].lines), Records(files'[f].lines))]_vars

\* C10: a ledger write is begun only by finalize_sale from PAID, for a cart
\* whose payment was accepted with tendered >= total.
C10_LedgerOnlyForAcceptedPayment ==
  /\ \A c \in hist.calls :
       \E a \in hist.accepted : a.ts = c.ts /\ FloatGeq(a.paid, a.total)
  /\ \A p \in Pos :
       pc[p] \in LogPcs => FloatGeq(amount_paid[p], total[p])

\* C11: a payment whose amount is not a number, or is less than the total, is
\* rejected with an error dialog: the transaction stays in the payment window
\* without the finalize buttons, the cart and the three files are unchanged;
\* and an amount that is at least the total is accepted, also after a
\* rejection on the same cart.
Rejected(p, a) == ~IsFloatText(a) \/ FloatLess(ParseFloat(a), total[p])
C11_LowPaymentRejected ==
  [][\A p \in Pos, a \in AmountTexts :
       calculate_change(p, a) =>
         /\ Rejected(p, a) =>
              /\ pc'[p] = "payment"
              /\ dialog'[p] \in {"Invalid amount",
                                 "Amount received is less than total"}
              /\ sale_items'[p] = sale_items[p]
              /\ files' = files
         /\ (IsFloatText(a) /\ FloatGeq(ParseFloat(a), total[p])) =>
              /\ pc'[p] = "paid"
              /\ sale_items'[p] = sale_items[p]]_vars
\* a payment was rejected, and a later one on the same cart was accepted
C11_Witness ==
  /\ pc["pos1"] = "paid"
  /\ dialog["pos1"] = "Amount received is less than total"
  /\ sale_items["pos1"] # <<>>
  /\ FloatGeq(amount_paid["pos1"], total["pos1"])

\* C12: leaving the payment window without finalizing (Esc, Cancel, closing
\* the window) aborts the transaction: the three files stay as they are and
\* the cart is discarded.
C12_AbortDiscardsCart ==
  [][\A p \in Pos :
       payment_destroy(p) => (files' = files /\ sale_items'[p] = <<>>)]_vars

\* The stock of product b in a table: the stock field of the row that holds
\* b (the last one, when b was entered twice); none when the row has no
\* stock field or no integer in it.
Ids(lines) == {lines[i][1] : i \in 2..Len(lines)}
StockOf(lines, b) ==
  LET row == LastRow(Tail(lines), b) IN
    IF Len(row) >= 4 /\ IsIntText(row[4]) THEN {ParseInt(row[4])} ELSE {}
Decremented(old, new, cart, b) ==
  /\ b \in Ids(new)
  /\ StockOf(old, b) # {}
  /\ StockOf(new, b) = {s - CartQty(cart, b) : s \in StockOf(old, b)}

\* C13: the inventory apply is all-or-nothing: when it writes the table, the
\* stock of every cart product that is in the table has been decremented;
\* otherwise the table is as it was read.
C13_ApplyAllOrNothing ==
  [][\A p \in Pos :
       inv_write(p) =>
         \/ files'[ProductsFile].lines = inv_lines[p]
         \/ \A b \in CartCodes(sale_items[p]) \cap Ids(inv_lines[p]) :
              Decremented(inv_lines[p], files'[ProductsFile].lines,
                          sale_items[p], b)]_vars

\* C14: an inventory apply that fails before the write-back (products.csv
\* missing, empty, or not readable as a table) changes nothing in the product
\* table, and when it returns the exclusive lock is released.
C14_FailedApplyLeavesTable ==
  [][\A p \in Pos :
       /\ (pc[p] \in InvPcs \ {"inv_write"} /\ pc'[p] # pc[p]) =>
            files'[ProductsFile] = files[ProductsFile]
       /\ InventoryFails(p) =>
            /\ p \notin lockEx'[ProductsFile]
            /\ timestamp[p] \notin hist'.applied]_vars
\* the apply met a table with a row it cannot read and has returned: the
\* table is still there with that row, and nobody holds the lock
C14_Witness ==
  /\ pc["pos1"] = "reset_sale"
  /\ dialog["pos1"] = "Could not update inventory"
  /\ files[ProductsFile].exists
  /\ \E i \in 2..Len(files[ProductsFile].lines) :
       files[ProductsFile].lines[i] = <<>>
  /\ lockEx[ProductsFile] = {}

\* C15: the write-back of the inventory apply keeps the header row, the
\* number of rows and their order, leaves every row whose barcode is not in
\* the cart as it was, and changes no field but the stock of the others.
C15_ApplyKeepsRows ==
  [][\A p \in Pos :
       inv_write(p) =>
         LET old == inv_lines[p]
             new == files'[ProductsFile].lines
         IN /\ Len(new) = Len(old)
            /\ new[1] = old[1]
            /\ \A i \in 2..Len(old) :
                 /\ Len(new[i]) = Len(old[i])
                 /\ \A k \in 1..Len(old[i]) : k # 4 => new[i][k] = old[i][k]
                 /\ old[i][1] \notin CartCodes(sale_items[p]) =>
                      new[i] = old[i]]_vars

\* C16: the apply sets the stock of every cart product that is in the table
\* to the stock it read under the lock less the cart quantity; a cart product
\* that is not in the table is passed over without an error, and when no cart
\* product is in the table nothing is written.
C16_ApplyDecrementsPresentIds ==
  [][\A p \in Pos :
       LET cart == sale_items[p]
           present(lines) == CartCodes(cart) \cap Ids(lines)
       IN /\ inv_write(p) =>
               /\ present(inv_lines[p]) # {}
               /\ \A b \in present(inv_lines[p]) :
                    Decremented(inv_lines[p], files'[ProductsFile].lines, cart, b)
               /\ dialog'[p] \notin InventoryErrors
          /\ (inv_read(p) /\ inv_lines'[p] # <<>> /\ present(inv_lines'[p]) = {}) =>
               /\ pc'[p] = "inv_unlock"
               /\ dialog'[p] \notin InventoryErrors
          /\ (inv_unlock(p) /\ pc[p] = "inv_unlock") =>
               /\ files' = files
               /\ dialog'[p] = dialog[p]]_vars
\* a cart of A and B was applied to a table from which A had been deleted:
\* B was decremented, no error was shown
C16_Witness ==
  /\ pc["pos1"] = "inv_unlock"
  /\ CartCodes(sale_items["pos1"]) = {"A", "B"}
  /\ Ids(inv_lines["pos1"]) = {"B"}
  /\ Ids(files[ProductsFile].lines) = {"B"}
  /\ StockOf(files[ProductsFile].lines, "B") = {InitialStock("B") - 1}
  /\ dialog["pos1"] = ""

\* C17: the stock count never refuses or changes a sale: a product is added
\* to the cart whatever its stock, and the apply of a sale of quantity q
\* leaves the stock read, s, at s - q, below zero when s < q, with the rows of
\* the sale in the ledger.
C17_OversellGoesNegative ==
  [][\A p \in Pos :
       /\ \A t \in ApplyTexts :
            LET b == FindBarcode(products[p], t.base) IN
              (add_product(p, t.base, t.star, t.n) /\ b # "") =>
                CartQty(sale_items'[p], b)
                  = CartQty(sale_items[p], b) + AddQty(t.star, t.n)
       /\ inv_write(p) =>
            /\ RowsIn(LogRows(timestamp[p], sale_items[p]), files'[SalesFile].lines)
            /\ \A b \in CartCodes(sale_items[p]) \cap Ids(inv_lines[p]) :
                 \A s \in StockOf(inv_lines[p], b) :
                   StockOf(files'[ProductsFile].lines, b)
                     = {s - CartQty(sale_items[p], b)}]_vars
\* two of B were sold against a stock of one: the ledger has the row, the
\* table has B at -1
C17_Witness ==
  /\ pc["pos1"] = "inv_unlock"
  /\ "B" \in DOMAIN products["pos1"]
  /\ products["pos1"]["B"].inventory = 1
  /\ CartQty(sale_items["pos1"], "B") = 2
  /\ RowsIn(LogRows(timestamp["pos1"], sale_items["pos1"]), files[SalesFile].lines)
  /\ StockOf(files[ProductsFile].lines, "B") = {0 - 1}

\* the quantity column of the ledger, summed over the records of product b
RECURSIVE LedgerQty(_, _)
LedgerQty(lines, b) ==
  IF Len(lines) <= 1 THEN 0
  ELSE LedgerQty(SubSeq(lines, 1, Len(lines) - 1), b)
       + (IF lines[Len(lines)][2] = b THEN ParseInt(lines[Len(lines)][4]) ELSE 0)
\* the products of the cart that was logged at ts, one per cart line
SoldCodes(ts) ==
  LET rows == CallOf(ts).rows IN {rows[i][2] : i \in 1..Len(rows)}

\* C18: when every sale so far was finalized with its inventory update
\* written and nothing else wrote the product table, the stock of every
\* product is its initial stock less the sum of the quantities of its records
\* in the sales ledger, and the ledger holds one record per cart line of each
\* sale.
C18_StockMatchesLedger ==
  (faults = 0 /\ \A p \in Pos : pc[p] = "main") =>
    LET ledger == files[SalesFile].lines
        table == files[ProductsFile].lines
    IN /\ hist.applied = {c.ts : c \in hist.calls}
       /\ \A b \in Ids(table) :
            StockOf(table, b) = {InitialStock(b) - LedgerQty(ledger, b)}
       /\ \A c \in hist.calls :
            /\ Cardinality({i \in 2..Len(ledger) : ledger[i][1] = c.ts})
                 = Cardinality(SoldCodes(c.ts))
            /\ \A b \in SoldCodes(c.ts) :
                 \E i \in 2..Len(ledger) :
                   ledger[i][1] = c.ts /\ ledger[i][2] = b
\* two sales were finalized, of A and B and of A: three records in the
\* ledger with two of A, and A's stock is two less
C18_Witness ==
  /\ faults = 0
  /\ \A p \in Pos : pc[p] = "main" /\ nsales[p] = 1
  /\ Len(files[SalesFile].lines) = 4
  /\ LedgerQty(files[SalesFile].lines, "A") = 2
  /\ StockOf(files[ProductsFile].lines, "A") = {InitialStock("A") - 2}
  /\ StockOf(files[ProductsFile].lines, "B") = {InitialStock("B") - 1}

\* the deltas of a sale: its products with their quantities
Deltas(c) == {<<c.rows[i][2], c.rows[i][4]>> : i \in 1..Len(c.rows)}

\* C19: the apply is not idempotent: when the same deltas were applied twice
\* (and nothing else was), every product of them stands at its initial stock
\* less twice the quantity.
C19_ApplyTwiceDecrementsTwice ==
  \A c1, c2 \in hist.calls :
    (/\ c1.ts # c2.ts
     /\ Deltas(c1) = Deltas(c2)
     /\ hist.applied = {c1.ts, c2.ts}
     /\ faults = 0
     /\ \A p \in Pos : pc[p] # "inv_write") =>
      \A b \in SoldCodes(c1.ts) :
        StockOf(files[ProductsFile].lines, b)
          = {InitialStock(b) - 2 * QtyIn(c1.rows, b)}
\* both checkouts sold one A and both applies were written: A is two less
C19_Witness ==
  /\ \E c1, c2 \in hist.calls :
       /\ c1.ts # c2.ts
       /\ Deltas(c1) = Deltas(c2)
       /\ hist.applied = {c1.ts, c2.ts}
  /\ faults = 0
  /\ StockOf(files[ProductsFile].lines, "A") = {InitialStock("A") - 2}
  /\ StockOf(files[ProductsFile].lines, "B") = {InitialStock("B")}

\* C20: a product table that the editor loaded and saved as loaded loads
\* again to the same rows, and every product the checkout loaded from the
\* table before the save is still in it after the save.
C20_EditorRoundTrip ==
  (pc[Editor] = "idle" /\ ~hist.rewriting) =>
    /\ EditorRows(files[ProductsFile]) = tree
    /\ (pc["pos1"] \notin {"boot", "closed"} /\ "pos1" \notin hist.midread) =>
         DOMAIN products["pos1"]
           \subseteq DOMAIN LoadProducts(files[ProductsFile].lines)

\* C21: ledger initialization creates a ledger only when it is absent: a step
\* of init_sales_log or init_cash_flow_log, of a checkout or of the reports
\* viewer, changes nothing in a ledger that exists.
InitLogPcs(f) ==
  IF f = SalesFile THEN {"init_sales", "init_sales_w"}
  ELSE {"init_cash", "init_cash_w"}
C21_LedgerInitKeepsExisting ==
  [][\A p \in Pos \cup {Reports}, f \in {SalesFile, CashFile} :
       (pc[p] \in InitLogPcs(f) /\ pc'[p] # pc[p] /\ files[f].exists) =>
         files'[f] = files[f]]_vars

\* C22: once log_sale has returned, the last rows of sales.csv are the
\* records of the sale: one per cart line, in cart order, all with the
\* timestamp of the call, each with the line's barcode, name, quantity and
\* unit price and a total that is quantity * unit price; no other row has
\* that timestamp.
C22_OneRecordPerCartLine ==
  \A p \in Pos :
    pc[p] \in InvPcs \cup {"reset_sale"} =>
      LET ledger == files[SalesFile].lines
          cart == sale_items[p]
          off == Len(ledger) - Len(cart)
      IN /\ off >= 1
         /\ \A i \in 1..Len(cart) :
              LET r == ledger[off + i] IN
                /\ Len(r) = 6
                /\ r[1] = timestamp[p]
                /\ r[2] = cart[i].barcode
                /\ r[3] = cart[i].name
                /\ IsIntText(r[4]) /\ ParseInt(r[4]) = cart[i].qty
                /\ IsFloatText(r[5]) /\ ParseFloat(r[5]) = cart[i].price
                /\ IsFloatText(r[6])
                /\ ParseFloat(r[6]) = IntTimes(ParseInt(r[4]), ParseFloat(r[5]))
         /\ \A k \in 1..off : ledger[k][1] # timestamp[p]
\* a cart of two lines, one of them with quantity 2, was logged
C22_Witness ==
  /\ pc["pos1"] = "reset_sale"
  /\ Len(sale_items["pos1"]) = 2
  /\ \E i \in 1..2 : sale_items["pos1"][i].qty = 2
  /\ Len(files[SalesFile].lines) = 3
  /\ timestamp["pos1"] \in hist.logged

\* C23: every record of the sales ledger has a quantity above zero.
C23_LedgerQuantityPositive ==
  \A i \in 2..Len(files[SalesFile].lines) :
    LET r == files[SalesFile].lines[i] IN
      Len(r) >= 4 /\ IsIntText(r[4]) /\ ParseInt(r[4]) > 0

\* C24: the cart has at most one line per barcode; an add of quantity n of a
\* product raises the quantity of its line by n (a new line starts at n) and
\* leaves the other lines alone, '+' raises the line of the last added
\* product by one, and a delete removes the line of that product and nothing
\* else.
OthersKept(old, new, b) ==
  SelectSeq(new, LAMBDA l : l.barcode # b) = SelectSeq(old, LAMBDA l : l.barcode # b)
C24_CartLinesCombine ==
  [][\A p \in Pos :
       LET old == sale_items[p]
           new == sale_items'[p]
       IN /\ \A i, j \in 1..Len(old) : old[i].barcode = old[j].barcode => i = j
          /\ \A t \in EntryTexts :
               LET b == FindBarcode(products[p], t.base) IN
                 (add_product(p, t.base, t.star, t.n) /\ b # "") =>
                   /\ CartQty(new, b) = CartQty(old, b) + AddQty(t.star, t.n)
                   /\ Cardinality({i \in 1..Len(new) : new[i].barcode = b}) = 1
                   /\ OthersKept(old, new, b)
          /\ (add_one_more_last_product(p) /\ last_added[p] \in CartCodes(old)) =>
               /\ CartQty(new, last_added[p]) = CartQty(old, last_added[p]) + 1
               /\ Len(new) = Len(old)
               /\ OthersKept(old, new, last_added[p])
          /\ \A b \in CartCodes(old) :
               delete_item(p, b) =>
                 /\ b \notin CartCodes(new)
                 /\ Len(new) = Len(old) - 1
                 /\ OthersKept(old, new, b)]_vars
\* A was added more than once and B once: one line each, A with quantity 2
C24_Witness ==
  /\ Len(sale_items["pos1"]) = 2
  /\ CartQty(sale_items["pos1"], "A") = 2
  /\ CartQty(sale_items["pos1"], "B") = 1
  /\ last_added["pos1"] = "A"
  /\ sale_items["pos1"][1].barcode = "A"

\* the log_sale calls of checkout p that returned
LoggedCalls(p) == {c \in hist.calls : c.p = p /\ c.ts \in hist.logged}

\* C25: the cart is empty until the first add; the end of finalize_sale
\* clears it, after a log_sale that returned, also when update_inventory
\* failed; a log_sale that raised leaves the cart and the payment window as
\* they were; no other step empties a cart.  So the sales a checkout has
\* closed and the log_sale calls of it that returned are equally many.
C25_CartClearedOncePerCommit ==
  [][\A p \in Pos :
       /\ pc[p] \in {"boot", "init_sales", "init_sales_w", "init_cash",
                     "init_cash_w"} => sale_items[p] = <<>>
       /\ reset_sale(p) =>
            /\ sale_items'[p] = <<>>
            /\ timestamp[p] \in hist.logged
            /\ RowsIn(LogRows(timestamp[p], sale_items[p]), files[SalesFile].lines)
       /\ log_sale_open_fails(p) =>
            /\ sale_items'[p] = sale_items[p]
            /\ pc'[p] = "paid"
            /\ files' = files
       /\ (sale_items[p] # <<>> /\ sale_items'[p] = <<>>) => reset_sale(p)
       /\ Cardinality(LoggedCalls(p))
            = nsales[p] + (IF pc[p] \in InvPcs \cup {"reset_sale"} THEN 1 ELSE 0)]_vars
\* a first finalize failed in log_sale and kept the cart; a second one
\* logged the sale, and the cart was cleared
C25_Witness ==
  /\ pc["pos1"] = "main"
  /\ nsales["pos1"] = 1
  /\ sale_items["pos1"] = <<>>
  /\ hist.failed # {}
  /\ Cardinality(LoggedCalls("pos1")) = 1

\* C28: the reports viewer is read-only: no step of the reports process
\* creates or changes sales.csv, cash_flow.csv or products.csv.
C28_ReportsReadOnly ==
  [][pc'[Reports] # pc[Reports] => files' = files]_vars

\* C30: barcodes are unique in the editor's table: starting from a file with
\* unique barcodes, no two rows of the Treeview have the same barcode after
\* any add, inline edit or delete; an add or a barcode edit that would
\* repeat a barcode shows an error and leaves the table as it was.
UniqueIds(rows) ==
  \A i, j \in 1..Len(rows) : rows[i][1] = rows[j][1] => i = j
C30_EditorIdsUnique ==
  [][/\ UniqueIds(tree)
     /\ UniqueIds(tree')
     /\ \A b \in AddBarcodes, price \in {"1", "abc"}, inv \in {"", "x"} :
          ((\E j \in 1..Len(tree) : tree[j][1] = b)
             /\ editor_add_product(b, "new", price, inv)) =>
            (tree' = tree /\ dialog'[Editor] # "")
     /\ \A i \in 1..Len(tree), e \in EditCells :
          (/\ e[1] = 1
           /\ \E j \in 1..Len(tree) : j # i /\ tree[j][1] = e[2]
           /\ save_edit(i, e[1], e[2])) =>
            (tree' = tree /\ dialog'[Editor] = "El código de barras ya existe.")]_vars
\* a product was added and a barcode was edited, and an attempt to repeat a
\* barcode was rejected
C30_Witness ==
  /\ Len(tree) = 2
  /\ {tree[1][1], tree[2][1]} = {"7", "C"}
  /\ dialog[Editor] = "El código de barras ya existe."

\* What a load keeps of the rows of a table, given the rows it skips: the
\* checkout's mapping has the barcodes of the rows not skipped, each with the
\* fields of the last such row (stock 0 when the row has none); the editor's
\* table is the rows not skipped, in file order.
CheckoutKeeps(lines, prods, skips(_)) ==
  LET rows == Tail(lines)
      kept == {i \in 1..Len(rows) : ~skips(rows[i])}
  IN /\ DOMAIN prods = {rows[i][1] : i \in kept}
     /\ \A i \in kept :
          (\A j \in kept : rows[j][1] = rows[i][1] => j <= i) =>
            /\ prods[rows[i][1]].name = rows[i][2]
            /\ prods[rows[i][1]].price = ParseFloat(rows[i][3])
            /\ prods[rows[i][1]].inventory
                 = (IF Len(rows[i]) >= 4 THEN ParseInt(rows[i][4]) ELSE 0)
EditorKeeps(lines, rows, skips(_)) ==
  rows = SelectSeq(Tail(lines), LAMBDA row : ~skips(row))
LoadsKeep(checkoutSkips(_), editorSkips(_)) ==
  LET f == files[ProductsFile] IN
    /\ \A p \in Pos :
         (load_products(p) /\ f.exists /\ f.lines # <<>>) =>
           /\ pc'[p] # "closed"
           /\ CheckoutKeeps(f.lines, products'[p], checkoutSkips)
    /\ (editor_load_products /\ f.exists /\ f.lines # <<>>
          /\ f.lines[1] = ProductsHeader) =>
         /\ pc'[Editor] = "idle"
         /\ EditorKeeps(f.lines, tree', editorSkips)

\* C29 as stated: each load skips the rows with fewer than four fields, a
\* price that is no number or a stock that is no number, does not abort, and
\* has every other row of the table.
Malformed(row) ==
  Len(row) < 4 \/ ~IsFloatText(row[3]) \/ ~IsIntText(row[4])
CheckoutSkips(row) ==
  Len(row) < 3 \/ ~IsFloatText(row[3]) \/ (Len(row) >= 4 /\ ~IsIntText(row[4]))
EditorSkips(row) == Len(row) # 4
LedgerRecords(lines) ==
  IF lines = <<>> THEN <<>>
  ELSE SelectSeq(Tail(lines), LAMBDA row : row # <<>> /\ IsIsoText(row[1]))
RecordsInRange(lines, first, last) ==
  SelectSeq(LedgerRecords(lines),
            LAMBDA row : first <= DateOf(row[1]) /\ DateOf(row[1]) <= last)
ReadPcOf(f) == IF f = SalesFile THEN "scan_sales_read" ELSE "scan_cash_read"

\* C26: when the report over [start_date, end_date] reads a ledger (sales.csv
\* or cash_flow.csv), the rows it shows are exactly the records of the ledger
\* whose timestamp falls on a day d with start_date <= d <= end_date, whatever
\* the time of day.
C26_ReportShowsRecordsInRange ==
  [][\A f \in {SalesFile, CashFile} :
       (pc[Reports] = ReadPcOf(f) /\ pc'[Reports] # pc[Reports]) =>
         seen'[f] = RecordsInRange(files[f].lines, start_date, end_date)]_vars

\* the sum of field col over rows
RECURSIVE SumColumn(_, _)
SumColumn(rows, col) ==
  IF rows = <<>> THEN Float(0)
  ELSE FloatAdd(SumColumn(SubSeq(rows, 1, Len(rows) - 1), col),
                ParseFloat(rows[Len(rows)][col]))
OfType(rows, type) == SelectSeq(rows, LAMBDA row : row[2] = type)

\* C27: over the ledgers the checkout writes, the report sums the line totals
\* of the sales records in range into the sales total, the amounts of the
\* cash-flow records in range of type "entries" into the cash-in total and of
\* type "exits" into the cash-out total, every cash-flow record in range being
\* of one of the two types; and when the report ends the four labels show the
\* three sums and net = sales + cash-in - cash-out.
C27_ReportTotals ==
  [][/\ (pc[Reports] = "scan_sales_read" /\ pc'[Reports] # pc[Reports]) =>
          totals'.daily_total =
            SumColumn(RecordsInRange(files[SalesFile].lines,
                                     start_date, end_date), 6)
     /\ (pc[Reports] = "scan_cash_read" /\ pc'[Reports] # pc[Reports]) =>
          LET rows == RecordsInRange(files[CashFile].lines,
                                     start_date, end_date)
          IN /\ \A i \in 1..Len(rows) : rows[i][2] \in CashTypes
             /\ totals'.entries_total = SumColumn(OfType(rows, "entries"), 3)
             /\ totals'.exits_total = SumColumn(OfType(rows, "exits"), 3)
     /\ (pc[Reports] \in {"scan_cash", "scan_cash_unlock"}
           /\ pc'[Reports] \in {"idle", "closed"}) =>
          labels' = [report_total |-> totals.daily_total,
                     entradas_total |-> totals.entries_total,
                     salidas_total |-> totals.exits_total,
                     net_total |-> FloatSub(FloatAdd(totals.daily_total,
                                                     totals.entries_total),
                                            totals.exits_total)]]_vars

\* the files a process holds a lock on, and the file whose lock it requests
HeldBy(p) == {f \in Files : p \in lockEx[f] \cup lockSh[f]}
Requested(p) ==
  CASE pc[p] \in {"log_lock", "scan_sales_lock"} -> {SalesFile}
    [] pc[p] \in {"cash_lock", "scan_cash_lock"} -> {CashFile}
    [] pc[p] \in {"inv_lock", "w_lock"} -> {ProductsFile}
    [] OTHER -> {}
Waiting(p) ==
  \E f \in Requested(p) :
    IF p = Reports THEN ~CanLockSh(p, f) ELSE ~CanLockEx(p, f)

\* C31: a process holds the lock of at most one file, and holds none when it
\* requests a lock; so whenever a process waits for a lock, the lock is held
\* by a process that is not itself waiting for a lock (no deadlock on locks).
C31_OneLockAtATime ==
  \A p \in Procs :
    /\ Cardinality(HeldBy(p)) <= 1
    /\ Requested(p) # {} => HeldBy(p) = {}
    /\ Waiting(p) =>
         \E q \in Procs \ {p} :
           HeldBy(q) \cap Requested(p) # {} /\ Requested(q) = {}
\* the checkout waits for the lock of products.csv while the editor holds it
C31_Witness ==
  /\ pc["pos1"] = "inv_lock"
  /\ Waiting("pos1")
  /\ Editor \in lockEx[ProductsFile]

\* C32: a lock that a process holds is released, on every path, by the steps
\* the process takes without a user: whoever holds a lock on a file eventually
\* holds it no more.
C32_LocksReleased ==
  \A p \in Procs, f \in Files :
    (p \in lockEx[f] \cup lockSh[f]) ~> (p \notin lockEx[f] \cup lockSh[f])

\* the records of a commit in the sales ledger
RecordsOf(ts) ==
  SelectSeq(files[SalesFile].lines, LAMBDA row : row # <<>> /\ row[1] = ts)
CommitPcs ==
  {"payment", "paid", "log_lock", "log_write", "log_unlock", "log_close",
   "inv_exists", "inv_lock", "inv_read", "inv_write", "inv_empty_dialog",
   "inv_raise", "inv_unlock", "reset_sale"}

\* C33: the payment window is open, and a commit runs, only for a cart whose
\* total is greater than 0, which has at least one line; and every commit
\* (a log_sale that returned) has at least one record in the sales ledger.
C33_NoEmptyCommit ==
  /\ \A p \in Pos :
       pc[p] \in CommitPcs =>
         FloatLess(Float(0), total[p]) /\ sale_items[p] # <<>>
  /\ \A ts \in hist.logged : RecordsOf(ts) # <<>>
\* a commit has returned after the payment window was refused for an empty cart
C33_Witness ==
  /\ hist.logged # {}
  /\ dialog["pos1"] = "Empty Sale"

\* C34: for every committed sale, the line totals of its ledger records add
\* up to the total that the payment window was opened with, the one the amount
\* received was compared with.
C34_LedgerSumIsPricedTotal ==
  \A a \in hist.accepted :
    a.ts \in hist.logged => SumColumn(RecordsOf(a.ts), 6) = a.total
\* a sale of two lines, one of them of quantity 2, was committed
C34_Witness ==
  \E a \in hist.accepted :
    /\ a.ts \in hist.logged
    /\ Len(RecordsOf(a.ts)) = 2
    /\ \E i \in 1..2 : RecordsOf(a.ts)[i][4] = "2"

\* the barcodes of the product rows of a table
BarcodesOf(lines) ==
  {lines[i][1] : i \in {j \in 2..Len(lines) : lines[j] # <<>>}}

\* C35: in a session of the editor in which no product is deleted, a save
\* removes no product from the table: every barcode that is on disk when the
\* save rewrites the file is among the rows it writes, also when the load was
\* rejected.
C35_SaveKeepsUndeletedProducts ==
  [][(pc[Editor] = "w_write" /\ pc'[Editor] = "w_unlock") =>
       BarcodesOf(files[ProductsFile].lines)
         \subseteq BarcodesOf(<<ProductsHeader>> \o TkValues(tree))]_vars

\* C36: in a checkout session whose role is cashier, no key press and no
\* button click starts the Settings window or the Reports window.
C36_CashierOpensNoSettingsOrReports ==
  \A p \in Pos :
    user_role[p] = "cashier" =>
      launched[p] \cap {SettingsScript, ReportsScript} = {}

\* C37: after any sequence of create_user, delete_user and change_password
\* calls that starts from the default credentials, some user has the role
\* admin.
C37_AnAdminExists == Admins(users) # {}

====
